---- MODULE Spec2Model ----
(***************************************************************************)
(* Model of the skills build/validate tooling of pocketbase-skills:        *)
(*   packages/skills-build/src/build.js     (build)                        *)
(*   the validate script of the same package (src/unnamed/part_002)        *)
(* Texts are sequences of one-character strings, so that the regular       *)
(* expressions and the string methods of the source are computed on        *)
(* characters and not assumed.                                             *)
(***************************************************************************)
EXTENDS Integers, Sequences, FiniteSets, TLC

VARIABLES
    ppc,            \* position of the frontmatter-parser harness
    pair,           \* a (frontmatter entries, body) pair to serialize, or NoPair
    doc,            \* the text handed to parseMarkdownFrontmatter
    res,            \* what parseMarkdownFrontmatter returned
    spc,            \* position of the sectionToFilename harness
    slugName,       \* the section name handed to sectionToFilename
    filename,       \* what sectionToFilename returned
    refile,         \* what sectionToFilename returned for the stem of filename
    skills,         \* the skill directories under skills/, in readdir order
    thrown,         \* the exception that ended the running command, "" if none
    vpc,            \* validate: position
    vSkill,         \* validate: index of the skill being validated
    vErrors,        \* validateSkill: errors
    vWarnings,      \* validateSkill: warnings
    vRuleFiles,     \* validateSkill: ruleFiles
    vFile,          \* validateSkill: index of the rule file being checked
    hasErrors,      \* validate: hasErrors
    vReports,       \* validate: the per-skill reports printed so far
    exitStatus,     \* exit status of the validate process, -1 while it runs
    bpc,            \* build.js: position
    bSkill,         \* build.js: index of the skill being built
    sections,       \* buildSkill: sections
    ruleFiles,      \* buildSkill: ruleFiles
    rulesBySection, \* buildSkill: rulesBySection (own properties)
    bFile,          \* buildSkill: index of the rule file being grouped
    written,        \* build.js: the writeFileSync calls so far, in order
    bLog,           \* build.js: the console lines so far
    disk,           \* the generated files on disk: one record per skill and path
    rebuilds,       \* how many times build was run again after its first run
    prevWritten,    \* the writeFileSync calls of the previous build run
    prevDisk,       \* the generated files on disk when the previous run ended
    runSkills,      \* skills/ as it was when the running or last build run started
    prevSkills      \* skills/ as it was when the previous build run started

slugVars == <<spc, slugName, filename, refile>>

parseVars == <<ppc, pair, doc, res, slugVars>>

validateVars == <<vpc, vSkill, vErrors, vWarnings, vRuleFiles, vFile, hasErrors, vReports,
                  exitStatus>>

outVars == <<disk, rebuilds, prevWritten, prevDisk, runSkills, prevSkills>>

buildVars == <<bpc, bSkill, sections, ruleFiles, rulesBySection, bFile, written, bLog, outVars>>

vars == <<parseVars, skills, thrown, validateVars, buildVars>>

\* the commands are not running: the state of the tool variables in SpecParse
ToolsOff ==
    /\ skills = <<>> /\ thrown = ""
    /\ vpc = "off" /\ vSkill = 0 /\ vErrors = <<>> /\ vWarnings = <<>> /\ vRuleFiles = <<>>
    /\ vFile = 0 /\ hasErrors = FALSE /\ vReports = <<>> /\ exitStatus = -1
    /\ bpc = "off" /\ bSkill = 0 /\ sections = <<>> /\ ruleFiles = <<>>
    /\ rulesBySection = {} /\ bFile = 0 /\ written = <<>> /\ bLog = <<>>
    /\ disk = {} /\ rebuilds = 0 /\ prevWritten = <<>> /\ prevDisk = {}
    /\ runSkills = <<>> /\ prevSkills = <<>>

(***************************************************************************)
(* Strings                                                                 *)
(***************************************************************************)
NL == "\n"

\* String.prototype.trim removes white space and line terminators.
WhiteSpace == {" ", "\t", "\n", "\r"}

Dashes == <<"-", "-", "-">>
OpenDelim == <<"-", "-", "-", "\n">>
CloseDelim == <<"\n", "-", "-", "-", "\n">>
CloseDelimNoNL == <<"\n", "-", "-", "-">>
ProtoKey == <<"_", "_", "p", "r", "o", "t", "o", "_", "_">>

\* s.startsWith(p)
StartsWith(s, p) == Len(s) >= Len(p) /\ SubSeq(s, 1, Len(p)) = p

\* s.endsWith(p)
EndsWith(s, p) == Len(s) >= Len(p) /\ SubSeq(s, Len(s) - Len(p) + 1, Len(s)) = p

\* the occurrence of p in s at position i
OccursAt(s, p, i) == i >= 1 /\ i + Len(p) - 1 <= Len(s) /\ SubSeq(s, i, i + Len(p) - 1) = p

\* s.indexOf(p) counted from 1; 0 when p does not occur
IndexFrom(s, p, from) ==
    IF \E i \in from..(Len(s) - Len(p) + 1) : OccursAt(s, p, i)
    THEN CHOOSE i \in from..(Len(s) - Len(p) + 1) :
            OccursAt(s, p, i) /\ \A j \in from..(i - 1) : ~OccursAt(s, p, j)
    ELSE 0

IndexOf(s, p) == IndexFrom(s, p, 1)

\* s.includes(p)
Includes(s, p) == IndexOf(s, p) > 0

RECURSIVE TrimStart(_)
TrimStart(s) == IF s # <<>> /\ Head(s) \in WhiteSpace THEN TrimStart(Tail(s)) ELSE s

RECURSIVE TrimEnd(_)
TrimEnd(s) ==
    IF s # <<>> /\ s[Len(s)] \in WhiteSpace THEN TrimEnd(SubSeq(s, 1, Len(s) - 1)) ELSE s

\* s.trim()
Trim(s) == TrimEnd(TrimStart(s))

\* s.split(c) for a one-character separator c: never empty, "" gives [""]
RECURSIVE Split(_, _)
Split(s, c) ==
    LET i == IndexOf(s, <<c>>)
    IN IF i = 0 THEN <<s>>
       ELSE <<SubSeq(s, 1, i - 1)>> \o Split(SubSeq(s, i + 1, Len(s)), c)

\* parts.join(c)
RECURSIVE Join(_, _)
Join(parts, c) ==
    IF parts = <<>> THEN <<>>
    ELSE IF Len(parts) = 1 THEN parts[1]
    ELSE parts[1] \o <<c>> \o Join(Tail(parts), c)

(***************************************************************************)
(* Characters: code-unit order (Array.prototype.sort) and the classes of   *)
(* the regular expressions.                                                *)
(***************************************************************************)
\* the characters of the model (printable ASCII without the quotes, the
\* backquote and the backslash, which no text of the model holds) in increasing code-unit order
Ascii ==
    <<"\t", "\n", "\r", " ", "!", "#", "$", "%", "&", "(", ")", "*", "+", ",",
    "-", ".", "/", "0", "1", "2", "3", "4", "5", "6", "7", "8", "9", ":", ";", "<", "=",
    ">", "?", "@", "A", "B", "C", "D", "E", "F", "G", "H", "I", "J", "K", "L", "M", "N",
    "O", "P", "Q", "R", "S", "T", "U", "V", "W", "X", "Y", "Z", "[", "]", "^", "_",
    "a", "b", "c", "d", "e", "f", "g", "h", "i", "j", "k", "l", "m", "n", "o", "p",
    "q", "r", "s", "t", "u", "v", "w", "x", "y", "z", "{", "|", "}", "~">>

Code(c) == CHOOSE i \in 1..Len(Ascii) : Ascii[i] = c

\* \d
Digit == {"0", "1", "2", "3", "4", "5", "6", "7", "8", "9"}

\* a-z
Lower ==
    {"a", "b", "c", "d", "e", "f", "g", "h", "i", "j", "k", "l", "m", "n", "o", "p", "q",
    "r", "s", "t", "u", "v", "w", "x", "y", "z"}

\* A-Z
Upper ==
    {"A", "B", "C", "D", "E", "F", "G", "H", "I", "J", "K", "L", "M", "N", "O", "P", "Q",
    "R", "S", "T", "U", "V", "W", "X", "Y", "Z"}

\* \w
Word == Lower \cup Upper \cup Digit \cup {"_"}

\* a < b as the default comparator of Array.prototype.sort orders strings
RECURSIVE StrLess(_, _)
StrLess(a, b) ==
    IF b = <<>> THEN FALSE
    ELSE IF a = <<>> THEN TRUE
    ELSE IF Head(a) = Head(b) THEN StrLess(Tail(a), Tail(b))
    ELSE Code(Head(a)) < Code(Head(b))

RECURSIVE InsertSorted(_, _)
InsertSorted(sorted, x) ==
    IF sorted = <<>> THEN <<x>>
    ELSE IF StrLess(x, Head(sorted)) THEN <<x>> \o sorted
    ELSE <<Head(sorted)>> \o InsertSorted(Tail(sorted), x)

\* names.sort()
RECURSIVE SortNames(_)
SortNames(names) ==
    IF names = <<>> THEN <<>>
    ELSE InsertSorted(SortNames(SubSeq(names, 1, Len(names) - 1)), names[Len(names)])

\* the length of the longest run of characters of class cls starting at s[i]
RECURSIVE RunLen(_, _, _)
RunLen(s, i, cls) ==
    IF i <= Len(s) /\ s[i] \in cls THEN 1 + RunLen(s, i + 1, cls) ELSE 0

\* the length of the longest run of characters other than c starting at s[i]
RECURSIVE RunLenNot(_, _, _)
RunLenNot(s, i, c) ==
    IF i <= Len(s) /\ s[i] # c THEN 1 + RunLenNot(s, i + 1, c) ELSE 0

\* parseInt of a string of digits
RECURSIVE ParseInt(_)
ParseInt(ds) ==
    IF ds = <<>> THEN 0
    ELSE 10 * ParseInt(SubSeq(ds, 1, Len(ds) - 1)) + (Code(ds[Len(ds)]) - Code("0"))

(***************************************************************************)
(* Plain JavaScript objects used as maps: a set of <<key, value>> pairs    *)
(* holds the own properties.                                               *)
(***************************************************************************)
EmptyObj == {}

HasOwn(obj, k) == \E p \in obj : p[1] = k

OwnValue(obj, k) == (CHOOSE p \in obj : p[1] = k)[2]

\* obj[k] = v; assigning a string to __proto__ changes nothing
SetProp(obj, k, v) ==
    IF k = ProtoKey THEN obj
    ELSE {p \in obj : p[1] # k} \cup {<<k, v>>}

(***************************************************************************)
(* build.js: parseMarkdownFrontmatter                                      *)
(***************************************************************************)
NoMatch == [matched |-> FALSE, g1 |-> <<>>, g2 |-> <<>>]

\* faulty variant: the pattern without its ^ anchor
FrontmatterMatchUnanchored(content) ==
    LET o == IndexOf(content, OpenDelim)
        c == IF o = 0 THEN 0 ELSE IndexFrom(content, CloseDelim, o + 4)
    IN IF o = 0 \/ c = 0 THEN NoMatch
       ELSE [matched |-> TRUE,
             g1 |-> SubSeq(content, o + 4, c - 1),
             g2 |-> SubSeq(content, c + 5, Len(content))]

\* faulty variant: the closing delimiter without its final \n
FrontmatterMatchOpenEnded(content) ==
    LET c == IndexFrom(content, CloseDelimNoNL, 5)
    IN IF ~StartsWith(content, OpenDelim) \/ c = 0 THEN NoMatch
       ELSE [matched |-> TRUE,
             g1 |-> SubSeq(content, 5, c - 1),
             g2 |-> SubSeq(content, c + 4, Len(content))]

\* content.match(/^---\n([\s\S]*?)\n---\n([\s\S]*)$/): the lazy first group ends
\* at the first "\n---\n" at or after position 5.
FrontmatterMatch(content) ==
    LET c == IndexFrom(content, CloseDelim, 5)
    IN IF ~StartsWith(content, OpenDelim) \/ c = 0 THEN NoMatch
       ELSE [matched |-> TRUE,
             g1 |-> SubSeq(content, 5, c - 1),
             g2 |-> SubSeq(content, c + 5, Len(content))]

\* the body of the forEach callback, lines 15-18
FrontmatterLine(fm, line) ==
    LET parts == Split(line, ":")
        key == parts[1]
        valueParts == Tail(parts)
    IN IF key # <<>> /\ Len(valueParts) > 0
       THEN SetProp(fm, Trim(key), Trim(Join(valueParts, ":")))
       ELSE fm

RECURSIVE FrontmatterLines(_, _)
FrontmatterLines(fm, lines) ==
    IF lines = <<>> THEN fm
    ELSE FrontmatterLines(FrontmatterLine(fm, Head(lines)), Tail(lines))

parseMarkdownFrontmatter(content) ==
    LET match == FrontmatterMatch(content)
    IN IF ~match.matched
       THEN [frontmatter |-> EmptyObj, content |-> content]
       ELSE [frontmatter |-> FrontmatterLines(EmptyObj, Split(match.g1, NL)),
             content |-> match.g2]

(***************************************************************************)
(* build.js: the section registry, lines 43-54                             *)
(***************************************************************************)
HeadingMark == <<"#", "#", " ">>
DotSpace == <<".", " ">>
ImpactMark == <<")", "\n", "*", "*", "I", "m", "p", "a", "c", "t", ":", "*", "*", " ">>
DescriptionMark ==
    <<"\n", "*", "*", "D", "e", "s", "c", "r", "i", "p", "t", "i", "o", "n", ":", "*", "*",
    " ">>

NoSection == [ok |-> FALSE, end |-> 0, num |-> 0, name |-> <<>>, prefix |-> <<>>,
              impact |-> <<>>, description |-> <<>>]

\* one match of
\*   /## (\d+)\. ([^(]+) \((\w+)\)\n\*\*Impact:\*\* (\w+[-\w]*)\n\*\*Description:\*\* ([^\n]+)/
\* starting at position p. Every quantifier is followed by a character outside
\* its class, so the greedy match is the only one; [^(]+ gives back its last
\* character, which has to be the space before the parenthesis.
SectionMatchAt(text, p) ==
    LET numAt == p + Len(HeadingMark)
        numLen == RunLen(text, numAt, Digit)
        nameAt == numAt + numLen + Len(DotSpace)
        nameRun == RunLenNot(text, nameAt, "(")
        paren == nameAt + nameRun
        prefixAt == paren + 1
        prefixLen == RunLen(text, prefixAt, Word)
        impactAt == prefixAt + prefixLen + Len(ImpactMark)
        impactLen == RunLen(text, impactAt, Word \cup {"-"})
        descAt == impactAt + impactLen + Len(DescriptionMark)
        descLen == RunLenNot(text, descAt, NL)
    IN IF /\ OccursAt(text, HeadingMark, p)
          /\ numLen >= 1
          /\ OccursAt(text, DotSpace, numAt + numLen)
          /\ nameRun >= 2
          /\ paren <= Len(text)
          /\ text[paren - 1] = " "
          /\ prefixLen >= 1
          /\ OccursAt(text, ImpactMark, prefixAt + prefixLen)
          /\ impactLen >= 1
          /\ text[impactAt] \in Word
          /\ OccursAt(text, DescriptionMark, impactAt + impactLen)
          /\ descLen >= 1
       THEN [ok |-> TRUE,
             end |-> descAt + descLen,
             num |-> ParseInt(SubSeq(text, numAt, numAt + numLen - 1)),
             name |-> Trim(SubSeq(text, nameAt, paren - 2)),
             prefix |-> SubSeq(text, prefixAt, prefixAt + prefixLen - 1),
             impact |-> SubSeq(text, impactAt, impactAt + impactLen - 1),
             description |-> SubSeq(text, descAt, descAt + descLen - 1)]
       ELSE NoSection

SectionRecord(m) ==
    [num |-> m.num, name |-> m.name, prefix |-> m.prefix, impact |-> m.impact,
     description |-> m.description]

\* sectionsContent.matchAll(...): the matches from left to right, each search
\* resuming where the previous match ended
RECURSIVE ParseSectionsFrom(_, _)
ParseSectionsFrom(text, from) ==
    IF \E p \in from..Len(text) : SectionMatchAt(text, p).ok
    THEN LET p == CHOOSE q \in from..Len(text) :
                    /\ SectionMatchAt(text, q).ok
                    /\ \A r \in from..(q - 1) : ~SectionMatchAt(text, r).ok
             m == SectionMatchAt(text, p)
         IN <<SectionRecord(m)>> \o ParseSectionsFrom(text, m.end)
    ELSE <<>>

ParseSections(sectionsContent) == ParseSectionsFrom(sectionsContent, 1)

(***************************************************************************)
(* Inputs of the parser harness                                            *)
(***************************************************************************)
MaxLines == 4
MaxEntries == 2

LinePool ==
    { Dashes,
      <<"-", "-", "-", "-">>,
      <<>>,
      <<"a", ":", " ", "b">>,
      <<" ", "k", " ", ":", "v", ":", "w", " ">>,
      <<":", "v">>,
      <<"x">> }

LineSeqs == UNION { [1..n -> LinePool] : n \in 1..MaxLines }

\* every text of at most MaxLines pool lines, with or without a final newline
Texts == { Join(ls, NL) : ls \in LineSeqs } \cup { Join(ls, NL) \o <<NL>> : ls \in LineSeqs }

KeyPool == { <<"a">>, <<"k", " ", "b">>, <<"t", "i", "t", "l", "e">> }
ValuePool == { <<>>, <<"v">>, <<"b", ":", "c">>, <<"x", ":", " ", "y">> }
BodyPool == { <<>>, <<"x">>, <<"x", "\n", "-", "-", "-", "\n", "y">>, <<"\n", "#", " ", "T", "\n">> }

EntrySeqs ==
    { es \in UNION { [1..n -> KeyPool \X ValuePool] : n \in 0..MaxEntries } :
        \A i, j \in 1..Len(es) : es[i][1] = es[j][1] => i = j }

NoPair == [entries |-> <<>>, body |-> <<>>, given |-> FALSE]

Pairs == { [entries |-> es, body |-> b, given |-> TRUE] : es \in EntrySeqs, b \in BodyPool }

NoRes == [done |-> FALSE, frontmatter |-> EmptyObj, content |-> <<>>]

\* "---", one "key: value" line per entry, "---", then the body
RECURSIVE EntryLines(_)
EntryLines(es) ==
    IF es = <<>> THEN <<>>
    ELSE <<es[1][1] \o <<":", " ">> \o es[1][2]>> \o EntryLines(Tail(es))

Serialize(p) == Join(<<Dashes>> \o EntryLines(p.entries) \o <<Dashes>>, NL) \o <<NL>> \o p.body

\* sectionToFilename is not being exercised
SlugOff == spc = "off" /\ slugName = <<>> /\ filename = <<>> /\ refile = <<>>

ParseInit ==
    /\ ToolsOff
    /\ SlugOff
    /\ res = NoRes
    /\ \/ ppc = "text" /\ pair = NoPair /\ doc \in Texts
       \/ ppc = "pair" /\ pair \in Pairs /\ doc = <<>>

SerializeStep ==
    /\ ppc = "pair"
    /\ doc' = Serialize(pair)
    /\ ppc' = "text"
    /\ UNCHANGED <<pair, res, slugVars, skills, thrown, validateVars, buildVars>>

ParseStep ==
    /\ ppc = "text"
    /\ res' = [done |-> TRUE] @@ parseMarkdownFrontmatter(doc)
    /\ ppc' = "parsed"
    /\ UNCHANGED <<pair, doc, slugVars, skills, thrown, validateVars, buildVars>>

ParseNext == SerializeStep \/ ParseStep

SpecParse == ParseInit /\ [][ParseNext]_vars

(***************************************************************************)
(* The file system under skills/: the inputs of both commands              *)
(***************************************************************************)
MdExt == <<".", "m", "d">>
Underscore == <<"_">>
SectionsFile == <<"_", "s", "e", "c", "t", "i", "o", "n", "s", ".", "m", "d">>
QueryBatchFile ==
    <<"q", "u", "e", "r", "y", "-", "b", "a", "t", "c", "h", "-", "o", "p", "e", "r", "a",
    "t", "i", "o", "n", "s", ".", "m", "d">>
QueryMdxFile == <<"q", "u", "e", "r", "y", "-", "a", ".", "m", "d", "x", ".", "m", "d">>
AuthAFile == <<"a", "u", "t", "h", "-", "a", ".", "m", "d">>
AuthBFile == <<"a", "u", "t", "h", "-", "b", ".", "m", "d">>
ConstructorFile ==
    <<"c", "o", "n", "s", "t", "r", "u", "c", "t", "o", "r", "-", "x", ".", "m", "d">>
OrphanFile == <<"z", "z", "-", "o", ".", "m", "d">>
TemplateFile == <<"_", "t", "e", "m", "p", "l", "a", "t", "e", ".", "m", "d">>
NotesFile == <<"n", "o", "t", "e", "s", ".", "t", "x", "t">>

\* rule file contents
DocFull ==
    <<"-", "-", "-", "\n", "t", "i", "t", "l", "e", ":", " ", "T", "1", "\n", "i", "m",
    "p", "a", "c", "t", ":", " ", "H", "I", "G", "H", "\n", "-", "-", "-", "\n", "#", "#",
    " ", "T", "1", "\n", "\n", "*", "*", "I", "n", "c", "o", "r", "r", "e", "c", "t", "*",
    "*", " ", "a", "\n", "*", "*", "C", "o", "r", "r", "e", "c", "t", "*", "*", " ", "b",
    "\n">>
DocNoImpact ==
    <<"-", "-", "-", "\n", "t", "i", "t", "l", "e", ":", " ", "T", "2", "\n", "-", "-",
    "-", "\n", "B", " ", "*", "*", "I", "n", "c", "o", "r", "r", "e", "c", "t", "*", "*",
    " ", "*", "*", "C", "o", "r", "r", "e", "c", "t", "*", "*">>
DocNoTitle ==
    <<"-", "-", "-", "\n", "i", "m", "p", "a", "c", "t", ":", " ", "L", "O", "W", "\n",
    "-", "-", "-", "\n", "b", "o", "d", "y">>
DocNoFrontmatter == <<"#", " ", "H", "\n", "t", "e", "x", "t">>
DocUnclosed == <<"-", "-", "-", "\n", "t", "i", "t", "l", "e", ":", " ", "T", "3", "\n">>

\* _sections.md contents
RegistryQuery ==
    <<"#", " ", "S", "e", "c", "t", "i", "o", "n", "s", "\n", "\n", "#", "#", " ", "1",
    ".", " ", "Q", "u", "e", "r", "y", " ", "P", "e", "r", "f", " ", "(", "q", "u", "e",
    "r", "y", ")", "\n", "*", "*", "I", "m", "p", "a", "c", "t", ":", "*", "*", " ", "H",
    "I", "G", "H", "\n", "*", "*", "D", "e", "s", "c", "r", "i", "p", "t", "i", "o", "n",
    ":", "*", "*", " ", "Q", " ", "d", "\n">>
RegistryQueryAuth ==
    <<"#", "#", " ", "1", ".", " ", "Q", "u", "e", "r", "y", " ", "P", "e", "r", "f", " ",
    "(", "q", "u", "e", "r", "y", ")", "\n", "*", "*", "I", "m", "p", "a", "c", "t", ":",
    "*", "*", " ", "H", "I", "G", "H", "\n", "*", "*", "D", "e", "s", "c", "r", "i", "p",
    "t", "i", "o", "n", ":", "*", "*", " ", "Q", " ", "d", "\n", "\n", "#", "#", " ", "2",
    ".", " ", "A", "u", "t", "h", " ", "(", "a", "u", "t", "h", ")", "\n", "*", "*", "I",
    "m", "p", "a", "c", "t", ":", "*", "*", " ", "L", "O", "W", "-", "M", "E", "D", "I",
    "U", "M", "\n", "*", "*", "D", "e", "s", "c", "r", "i", "p", "t", "i", "o", "n", ":",
    "*", "*", " ", "A", " ", "d", "\n">>

MaxRuleFiles == 3
MaxSkills == 2

File(name, content) == [name |-> name, kind |-> "file", content |-> content]

Dir(name) == [name |-> name, kind |-> "dir", content |-> <<>>]

\* entries a rules directory may hold besides _sections.md
EntryPool ==
    { File(QueryBatchFile, DocFull),
      File(QueryMdxFile, DocNoTitle),
      File(AuthAFile, DocNoImpact),
      File(AuthAFile, DocNoFrontmatter),
      File(ConstructorFile, DocFull),
      File(OrphanFile, DocNoTitle),
      File(TemplateFile, DocNoFrontmatter),
      File(NotesFile, DocNoFrontmatter),
      File(QueryBatchFile, DocUnclosed),
      Dir(AuthBFile) }

\* directory listings: at most MaxRuleFiles entries with distinct names, any order
Listings ==
    { es \in UNION { [1..n -> EntryPool] : n \in 0..MaxRuleFiles } :
        \A i, j \in 1..Len(es) : es[i].name = es[j].name => i = j }

NoRegistry == [present |-> FALSE, text |-> <<>>]

Registry(text) == [present |-> TRUE, text |-> text]

Registries == { NoRegistry, Registry(RegistryQuery), Registry(RegistryQueryAuth) }

\* rules: absent, a regular file named rules, or a directory
NoRules == [state |-> "absent", registry |-> NoRegistry, entries |-> <<>>]

RulesNotDir == [state |-> "notdir", registry |-> NoRegistry, entries |-> <<>>]

RulesDir(registry, entries) == [state |-> "dir", registry |-> registry, entries |-> entries]

RulesDirs == { RulesDir(r, es) : r \in Registries, es \in Listings } \cup { NoRules, RulesNotDir }

MetaFields == {"version", "organization", "date", "abstract", "references"}

\* metadata.json: absent, unreadable, not JSON, the JSON text null, or an object
\* with some fields
Meta(state, fields) == [state |-> state, fields |-> fields]

MetaFull == Meta("object", MetaFields)

MetaPool ==
    { MetaFull, Meta("object", {"organization", "date"}), Meta("object", {"version"}),
      Meta("badjson", {}), Meta("unreadable", {}), Meta("absent", {}),
      Meta("null", {}) }

Skill(skillMd, metadata, rules) == [skillMd |-> skillMd, metadata |-> metadata, rules |-> rules]

CleanRules == RulesDir(Registry(RegistryQuery), <<File(QueryBatchFile, DocFull)>>)

\* a skill directory alone under skills/
SkillDirs ==
    { Skill(TRUE, MetaFull, r) : r \in RulesDirs }
    \cup { Skill(m, md, r) : m \in BOOLEAN, md \in MetaPool,
                             r \in { CleanRules, NoRules, RulesNotDir,
                                     RulesDir(NoRegistry, <<>>) } }

\* skill directories that stand next to others under skills/
SiblingSkillDirs ==
    { Skill(TRUE, MetaFull, CleanRules),
      Skill(TRUE, MetaFull, RulesDir(Registry(RegistryQuery), <<File(AuthAFile, DocNoImpact)>>)),
      Skill(FALSE, MetaFull, CleanRules),
      Skill(TRUE, MetaFull, RulesNotDir),
      Skill(TRUE, Meta("absent", {}), CleanRules),
      Skill(TRUE, MetaFull,
            RulesDir(Registry(RegistryQuery), <<File(ConstructorFile, DocFull)>>)) }

(***************************************************************************)
(* Further skill directories: a widgets catalogue                          *)
(***************************************************************************)
WidgetAFile == <<"w", "i", "d", "g", "e", "t", "-", "a", ".", "m", "d">>
WidgetBFile == <<"w", "i", "d", "g", "e", "t", "-", "b", ".", "m", "d">>
WidgetCFile == <<"w", "i", "d", "g", "e", "t", "-", "c", ".", "m", "d">>
GadgetAFile == <<"g", "a", "d", "g", "e", "t", "-", "a", ".", "m", "d">>

\* rule file contents
DocA ==
    <<"-", "-", "-", "\n", "t", "i", "t", "l", "e", ":", " ", "A", "\n", "o", "r", "d",
    "e", "r", ":", " ", "9", "\n", "i", "m", "p", "a", "c", "t", ":", " ", "L", "O", "W",
    "\n", "-", "-", "-", "\n", "#", "#", " ", "A", "\n", "\n", "*", "*", "I", "n", "c",
    "o", "r", "r", "e", "c", "t", "*", "*", " ", "a", "\n", "*", "*", "C", "o", "r", "r",
    "e", "c", "t", "*", "*", " ", "b", "\n">>
DocB ==
    <<"-", "-", "-", "\n", "t", "i", "t", "l", "e", ":", " ", "B", "\n", "i", "m", "p",
    "a", "c", "t", ":", " ", "H", "I", "G", "H", "\n", "-", "-", "-", "\n", "*", "*",
    "I", "n", "c", "o", "r", "r", "e", "c", "t", "*", "*", " ", "a", "\n", "*", "*", "C",
    "o", "r", "r", "e", "c", "t", "*", "*", " ", "b", "\n">>
DocBodyHeading ==
    <<"-", "-", "-", "\n", "t", "i", "t", "l", "e", ":", " ", "C", "\n", "i", "m", "p",
    "a", "c", "t", ":", " ", "L", "O", "W", "\n", "-", "-", "-", "\n", "#", "#", " ",
    "C", "\n", "\n", "*", "*", "I", "n", "c", "o", "r", "r", "e", "c", "t", "*", "*",
    " ", "a", "\n", "#", "#", " ", "2", ".", " ", "M", "o", "r", "e", "\n", "*", "*",
    "C", "o", "r", "r", "e", "c", "t", "*", "*", " ", "b", "\n">>
DocImpactInTitle ==
    <<"-", "-", "-", "\n", "t", "i", "t", "l", "e", ":", " ", "L", "o", "w", " ", "i",
    "m", "p", "a", "c", "t", ":", " ", "x", "\n", "-", "-", "-", "\n", "*", "*", "I",
    "n", "c", "o", "r", "r", "e", "c", "t", "*", "*", " ", "a", "\n", "*", "*", "C", "o",
    "r", "r", "e", "c", "t", "*", "*", " ", "b", "\n">>
DocOnlyIncorrect ==
    <<"-", "-", "-", "\n", "t", "i", "t", "l", "e", ":", " ", "D", "\n", "i", "m", "p",
    "a", "c", "t", ":", " ", "L", "O", "W", "\n", "-", "-", "-", "\n", "*", "*", "I",
    "n", "c", "o", "r", "r", "e", "c", "t", "*", "*", " ", "a", "\n">>
DocMarkersInFrontmatter ==
    <<"-", "-", "-", "\n", "t", "i", "t", "l", "e", ":", " ", "*", "*", "I", "n", "c",
    "o", "r", "r", "e", "c", "t", " ", "*", "*", "C", "o", "r", "r", "e", "c", "t", "\n",
    "i", "m", "p", "a", "c", "t", ":", " ", "L", "O", "W", "\n", "-", "-", "-", "\n",
    "b", "o", "d", "y", "\n">>
DocSubtitle ==
    <<"-", "-", "-", "\n", "s", "u", "b", "t", "i", "t", "l", "e", ":", " ", "S", "\n",
    "i", "m", "p", "a", "c", "t", ":", " ", "L", "O", "W", "\n", "-", "-", "-", "\n",
    "*", "*", "I", "n", "c", "o", "r", "r", "e", "c", "t", "*", "*", " ", "a", "\n", "*",
    "*", "C", "o", "r", "r", "e", "c", "t", "*", "*", " ", "b", "\n">>

DocOtherHeading ==
    <<"-", "-", "-", "\n", "t", "i", "t", "l", "e", ":", " ", "E", "\n", "i", "m", "p",
    "a", "c", "t", ":", " ", "L", "O", "W", "\n", "-", "-", "-", "\n", "#", "#", " ",
    "O", "t", "h", "e", "r", "\n", "\n", "*", "*", "I", "n", "c", "o", "r", "r", "e",
    "c", "t", "*", "*", " ", "a", "\n", "*", "*", "C", "o", "r", "r", "e", "c", "t", "*",
    "*", " ", "b", "\n">>
DocClosedAtEof ==
    <<"-", "-", "-", "\n", "t", "i", "t", "l", "e", ":", " ", "F", "\n", "i", "m", "p",
    "a", "c", "t", ":", " ", "L", "O", "W", "\n", "-", "-", "-">>
DocClosedWithTail ==
    <<"-", "-", "-", "\n", "t", "i", "t", "l", "e", ":", " ", "G", "\n", "i", "m", "p",
    "a", "c", "t", ":", " ", "L", "O", "W", "\n", "-", "-", "-", "x", "\n", "*", "*",
    "I", "n", "c", "o", "r", "r", "e", "c", "t", "*", "*", " ", "a", "\n", "*", "*", "C",
    "o", "r", "r", "e", "c", "t", "*", "*", " ", "b", "\n">>
DocBare ==
    <<"-", "-", "-", "\n", "n", "a", "m", "e", ":", " ", "H", "\n", "-", "-", "-", "\n",
    "x", "\n">>

DocEmptyBlock ==
    <<"-", "-", "-", "\n", "-", "-", "-", "\n", "*", "*", "I", "n", "c", "o", "r", "r",
    "e", "c", "t", "*", "*", " ", "a", "\n", "*", "*", "C", "o", "r", "r", "e", "c", "t",
    "*", "*", " ", "b", "\n">>

\* _sections.md contents
RegistryWidgets ==
    <<"#", "#", " ", "1", ".", " ", "W", "i", "d", "g", "e", "t", "s", " ", "(", "w",
    "i", "d", "g", "e", "t", ")", "\n", "*", "*", "I", "m", "p", "a", "c", "t", ":", "*",
    "*", " ", "H", "I", "G", "H", "\n", "*", "*", "D", "e", "s", "c", "r", "i", "p", "t",
    "i", "o", "n", ":", "*", "*", " ", "W", " ", "d", "\n">>
RegistryShop ==
    <<"#", "#", " ", "3", ".", " ", "G", "a", "d", "g", "e", "t", "s", " ", "(", "g",
    "a", "d", "g", "e", "t", ")", "\n", "*", "*", "I", "m", "p", "a", "c", "t", ":", "*",
    "*", " ", "L", "O", "W", "\n", "*", "*", "D", "e", "s", "c", "r", "i", "p", "t", "i",
    "o", "n", ":", "*", "*", " ", "G", " ", "d", "\n", "\n", "#", "#", " ", "7", ".",
    " ", "W", "i", "d", "g", "e", "t", "s", " ", "(", "w", "i", "d", "g", "e", "t", ")",
    "\n", "*", "*", "I", "m", "p", "a", "c", "t", ":", "*", "*", " ", "H", "I", "G", "H",
    "\n", "*", "*", "D", "e", "s", "c", "r", "i", "p", "t", "i", "o", "n", ":", "*", "*",
    " ", "W", " ", "d", "\n">>
RegistryDupPrefix ==
    <<"#", "#", " ", "1", ".", " ", "W", "i", "d", "g", "e", "t", "s", " ", "(", "w",
    "i", "d", "g", "e", "t", ")", "\n", "*", "*", "I", "m", "p", "a", "c", "t", ":", "*",
    "*", " ", "H", "I", "G", "H", "\n", "*", "*", "D", "e", "s", "c", "r", "i", "p", "t",
    "i", "o", "n", ":", "*", "*", " ", "W", " ", "d", "\n", "\n", "#", "#", " ", "2",
    ".", " ", "W", "i", "d", "g", "e", "t", " ", "E", "x", "t", "r", "a", "s", " ", "(",
    "w", "i", "d", "g", "e", "t", ")", "\n", "*", "*", "I", "m", "p", "a", "c", "t", ":",
    "*", "*", " ", "L", "O", "W", "\n", "*", "*", "D", "e", "s", "c", "r", "i", "p", "t",
    "i", "o", "n", ":", "*", "*", " ", "X", " ", "d", "\n">>

RegistrySameSlug ==
    <<"#", "#", " ", "1", ".", " ", "W", "i", "d", "g", "e", "t", "s", " ", "(", "w",
    "i", "d", "g", "e", "t", ")", "\n", "*", "*", "I", "m", "p", "a", "c", "t", ":", "*",
    "*", " ", "H", "I", "G", "H", "\n", "*", "*", "D", "e", "s", "c", "r", "i", "p", "t",
    "i", "o", "n", ":", "*", "*", " ", "W", " ", "d", "\n", "\n", "#", "#", " ", "2",
    ".", " ", "W", "i", "d", "g", "e", "t", "s", "!", " ", "(", "g", "a", "d", "g", "e",
    "t", ")", "\n", "*", "*", "I", "m", "p", "a", "c", "t", ":", "*", "*", " ", "L", "O",
    "W", "\n", "*", "*", "D", "e", "s", "c", "r", "i", "p", "t", "i", "o", "n", ":", "*",
    "*", " ", "G", " ", "d", "\n">>

RegistrySlash ==
    <<"#", "#", " ", "1", ".", " ", "F", "i", "l", "e", "s", "/", "I", "O", " ", "(",
    "f", "i", "l", "e", ")", "\n", "*", "*", "I", "m", "p", "a", "c", "t", ":", "*", "*",
    " ", "L", "O", "W", "\n", "*", "*", "D", "e", "s", "c", "r", "i", "p", "t", "i", "o",
    "n", ":", "*", "*", " ", "F", " ", "d", "\n">>

MaxCatalogueFiles == 2

CatalogueEntryPool ==
    { File(WidgetAFile, DocA),
      File(WidgetBFile, DocB),
      File(WidgetCFile, DocBodyHeading),
      File(GadgetAFile, DocFull),
      File(WidgetAFile, DocImpactInTitle),
      File(WidgetBFile, DocOnlyIncorrect),
      File(WidgetCFile, DocMarkersInFrontmatter),
      File(GadgetAFile, DocSubtitle),
      File(GadgetAFile, DocOtherHeading),
      File(WidgetAFile, DocClosedAtEof),
      File(WidgetBFile, DocClosedWithTail),
      File(WidgetCFile, DocEmptyBlock),
      File(GadgetAFile, DocBare) }

\* listings in descending order of the names, each name once, so that the sort
\* of line 57 has work to do; Listings has the other orders
CatalogueListings ==
    { es \in UNION { [1..n -> CatalogueEntryPool] : n \in 0..MaxCatalogueFiles } :
        \A i, j \in 1..Len(es) : i < j => StrLess(es[j].name, es[i].name) }

CatalogueRegistries ==
    { NoRegistry, Registry(RegistryWidgets), Registry(RegistryShop),
      Registry(RegistryDupPrefix), Registry(RegistrySameSlug), Registry(RegistrySlash) }

CatalogueDirs ==
    { Skill(TRUE, MetaFull, RulesDir(r, es)) :
        r \in CatalogueRegistries, es \in CatalogueListings }

SkillTrees ==
    { <<d>> : d \in SkillDirs \cup CatalogueDirs }
    \cup UNION { [1..n -> SiblingSkillDirs] : n \in 2..MaxSkills }

\* fs.readdirSync(rulesDir): the names, _sections.md among them when present
Readdir(rules) ==
    (IF rules.registry.present THEN <<SectionsFile>> ELSE <<>>)
        \o [i \in 1..Len(rules.entries) |-> rules.entries[i].name]

\* the directory entry called name
Entry(rules, name) ==
    IF name = SectionsFile THEN File(SectionsFile, rules.registry.text)
    ELSE LET i == CHOOSE j \in 1..Len(rules.entries) : rules.entries[j].name = name
         IN rules.entries[i]

\* f.endsWith('.md') && !f.startsWith('_')
IsRuleFile(f) == EndsWith(f, MdExt) /\ ~StartsWith(f, Underscore)

ParserOff == ppc = "off" /\ pair = NoPair /\ doc = <<>> /\ res = NoRes /\ SlugOff

ToolsInit ==
    /\ ParserOff
    /\ skills \in SkillTrees
    /\ thrown = ""
    /\ vpc = "idle" /\ vSkill = 0 /\ vErrors = <<>> /\ vWarnings = <<>> /\ vRuleFiles = <<>>
    /\ vFile = 0 /\ hasErrors = FALSE /\ vReports = <<>> /\ exitStatus = -1
    /\ bpc = "idle" /\ bSkill = 0 /\ sections = <<>> /\ ruleFiles = <<>>
    /\ rulesBySection = {} /\ bFile = 0 /\ written = <<>> /\ bLog = <<>>
    /\ disk = {} /\ rebuilds = 0 /\ prevWritten = <<>> /\ prevDisk = {}
    /\ runSkills = <<>> /\ prevSkills = <<>>

(***************************************************************************)
(* validate                                                                *)
(***************************************************************************)
Msg(file, text) == [file |-> file, msg |-> text]

\* an exception nobody catches ends the node process with status 1
ValidateCrash(code) ==
    /\ thrown' = code
    /\ vpc' = "crashed"
    /\ exitStatus' = 1

\* lines 81-86: the command starts
ValidateStart ==
    /\ vpc = "idle" /\ bpc = "idle"
    /\ vpc' = "skill"
    /\ vSkill' = 1
    /\ hasErrors' = FALSE
    /\ UNCHANGED <<parseVars, skills, thrown, vErrors, vWarnings, vRuleFiles, vFile,
                   vReports, exitStatus, buildVars>>

\* faulty variant: SKILL.md is not among the required files
RequiredFileErrorsMetadataOnly(skill) ==
    IF skill.metadata.state # "absent" THEN <<>>
    ELSE <<Msg(<<>>, "Missing required file: metadata.json")>>

\* lines 13-19
RequiredFileErrors(skill) ==
    (IF skill.skillMd THEN <<>> ELSE <<Msg(<<>>, "Missing required file: SKILL.md")>>)
    \o (IF skill.metadata.state # "absent" THEN <<>>
        ELSE <<Msg(<<>>, "Missing required file: metadata.json")>>)

\* validateSkill lines 10-32: required files, rules directory, registry, listing
ValidateSkillBegin ==
    /\ vpc = "skill"
    /\ LET skill == skills[vSkill]
           rules == skill.rules
       IN IF rules.state = "absent"
          THEN /\ vErrors' = RequiredFileErrors(skill) \o <<Msg(<<>>, "Missing rules directory")>>
               /\ vWarnings' = <<>>
               /\ vpc' = "metadata"
               /\ UNCHANGED <<vRuleFiles, vFile, thrown, exitStatus>>
          ELSE /\ vErrors' = RequiredFileErrors(skill)
               /\ vWarnings' = IF rules.registry.present THEN <<>>
                               ELSE <<Msg(<<>>, "Missing _sections.md file")>>
               /\ IF rules.state = "notdir"
                  THEN /\ ValidateCrash("ENOTDIR")
                       /\ UNCHANGED <<vRuleFiles, vFile>>
                  ELSE /\ vRuleFiles' = SelectSeq(Readdir(rules), IsRuleFile)
                       /\ vFile' = 1
                       /\ vpc' = "files"
                       /\ UNCHANGED <<thrown, exitStatus>>
    /\ UNCHANGED <<parseVars, skills, vSkill, hasErrors, vReports, buildVars>>

\* content.match(/^---\n([\s\S]*?)\n---/)
ValidatorFrontmatterMatch(content) ==
    LET c == IndexFrom(content, CloseDelimNoNL, 5)
    IN IF ~StartsWith(content, OpenDelim) \/ c = 0 THEN NoMatch
       ELSE [matched |-> TRUE, g1 |-> SubSeq(content, 5, c - 1), g2 |-> <<>>]

TitleKey == <<"t", "i", "t", "l", "e", ":">>
ImpactKey == <<"i", "m", "p", "a", "c", "t", ":">>
IncorrectMark == <<"*", "*", "I", "n", "c", "o", "r", "r", "e", "c", "t">>
CorrectMark == <<"*", "*", "C", "o", "r", "r", "e", "c", "t">>

\* faulty variant: the first check lacks its continue
RuleFileErrorsNoContinue(file, content) ==
    (IF ~StartsWith(content, Dashes) THEN <<Msg(file, "Missing frontmatter")>> ELSE <<>>)
    \o (IF ~ValidatorFrontmatterMatch(content).matched
        THEN <<Msg(file, "Invalid frontmatter format")>>
        ELSE IF ~Includes(ValidatorFrontmatterMatch(content).g1, TitleKey)
        THEN <<Msg(file, "Missing title in frontmatter")>>
        ELSE <<>>)

\* lines 37-60: the errors and warnings of one rule file
RuleFileErrors(file, content) ==
    IF ~StartsWith(content, Dashes) THEN <<Msg(file, "Missing frontmatter")>>
    ELSE IF ~ValidatorFrontmatterMatch(content).matched
    THEN <<Msg(file, "Invalid frontmatter format")>>
    ELSE IF ~Includes(ValidatorFrontmatterMatch(content).g1, TitleKey)
    THEN <<Msg(file, "Missing title in frontmatter")>>
    ELSE <<>>

\* faulty variant: the pattern warning only when both markers are missing
RuleFileWarningsBothMissing(file, content) ==
    IF ~StartsWith(content, Dashes) \/ ~ValidatorFrontmatterMatch(content).matched THEN <<>>
    ELSE (IF ~Includes(ValidatorFrontmatterMatch(content).g1, ImpactKey)
          THEN <<Msg(file, "Missing impact in frontmatter")>> ELSE <<>>)
         \o (IF ~Includes(content, IncorrectMark) /\ ~Includes(content, CorrectMark)
             THEN <<Msg(file, "Missing Incorrect/Correct pattern")>> ELSE <<>>)

\* faulty variant: the warnings are looked for in a file without frontmatter too
RuleFileWarningsNoSkip(file, content) ==
    (IF ~Includes(ValidatorFrontmatterMatch(content).g1, ImpactKey)
     THEN <<Msg(file, "Missing impact in frontmatter")>> ELSE <<>>)
    \o (IF ~Includes(content, IncorrectMark) \/ ~Includes(content, CorrectMark)
        THEN <<Msg(file, "Missing Incorrect/Correct pattern")>> ELSE <<>>)

RuleFileWarnings(file, content) ==
    IF ~StartsWith(content, Dashes) \/ ~ValidatorFrontmatterMatch(content).matched THEN <<>>
    ELSE (IF ~Includes(ValidatorFrontmatterMatch(content).g1, ImpactKey)
          THEN <<Msg(file, "Missing impact in frontmatter")>> ELSE <<>>)
         \o (IF ~Includes(content, IncorrectMark) \/ ~Includes(content, CorrectMark)
             THEN <<Msg(file, "Missing Incorrect/Correct pattern")>> ELSE <<>>)

\* lines 34-61: one iteration of the loop over ruleFiles
ValidateRuleFile ==
    /\ vpc = "files" /\ vFile <= Len(vRuleFiles)
    /\ LET file == vRuleFiles[vFile]
           entry == Entry(skills[vSkill].rules, file)
       IN IF entry.kind # "file"
          THEN /\ ValidateCrash("EISDIR")
               /\ UNCHANGED <<vErrors, vWarnings, vFile>>
          ELSE /\ vErrors' = vErrors \o RuleFileErrors(file, entry.content)
               /\ vWarnings' = vWarnings \o RuleFileWarnings(file, entry.content)
               /\ vFile' = vFile + 1
               /\ UNCHANGED <<thrown, vpc, exitStatus>>
    /\ UNCHANGED <<parseVars, skills, vSkill, vRuleFiles, hasErrors, vReports, buildVars>>

\* lines 66-76: readFileSync or JSON.parse throws, or metadata is null and the
\* read of metadata.version throws; the catch records the same error for all
MetadataErrors(metadata) ==
    IF metadata.state \in {"unreadable", "badjson", "null"}
    THEN <<Msg(<<>>, "metadata.json: Invalid JSON")>> ELSE <<>>

MetadataWarnings(metadata) ==
    IF metadata.state # "object" THEN <<>>
    ELSE (IF "version" \in metadata.fields THEN <<>>
          ELSE <<Msg(<<>>, "metadata.json: Missing version")>>)
         \o (IF "abstract" \in metadata.fields THEN <<>>
             ELSE <<Msg(<<>>, "metadata.json: Missing abstract")>>)

\* lines 63-78: the rule files are done (or there is no rules directory)
ValidateMetadata ==
    /\ \/ vpc = "files" /\ vFile > Len(vRuleFiles)
       \/ vpc = "metadata"
    /\ vErrors' = vErrors \o MetadataErrors(skills[vSkill].metadata)
    /\ vWarnings' = vWarnings \o MetadataWarnings(skills[vSkill].metadata)
    /\ vpc' = "report"
    /\ UNCHANGED <<parseVars, skills, thrown, vSkill, vRuleFiles, vFile, hasErrors, vReports,
                   exitStatus, buildVars>>

\* errors.length > 0 sets the flag; nothing clears it
NextHasErrors(flag, errors) == flag \/ Len(errors) > 0

\* lines 92-108: the report of one skill, then the next skill
ValidateReport ==
    /\ vpc = "report"
    /\ hasErrors' = NextHasErrors(hasErrors, vErrors)
    /\ vReports' = Append(vReports, [skill |-> vSkill, errors |-> vErrors,
                                     warnings |-> vWarnings])
    /\ IF vSkill < Len(skills)
       THEN /\ vSkill' = vSkill + 1
            /\ vpc' = "skill"
            /\ vErrors' = <<>> /\ vWarnings' = <<>> /\ vRuleFiles' = <<>> /\ vFile' = 0
       ELSE /\ vpc' = "exit"
            /\ UNCHANGED <<vSkill, vErrors, vWarnings, vRuleFiles, vFile>>
    /\ UNCHANGED <<parseVars, skills, thrown, exitStatus, buildVars>>

ExitCode(flag) == IF flag THEN 1 ELSE 0

\* line 110
ValidateExit ==
    /\ vpc = "exit"
    /\ exitStatus' = ExitCode(hasErrors)
    /\ vpc' = "exited"
    /\ UNCHANGED <<parseVars, skills, thrown, vSkill, vErrors, vWarnings, vRuleFiles, vFile,
                   hasErrors, vReports, buildVars>>

ValidateNext ==
    \/ ValidateStart
    \/ ValidateSkillBegin
    \/ ValidateRuleFile
    \/ ValidateMetadata
    \/ ValidateReport
    \/ ValidateExit

(***************************************************************************)
(* build.js: buildSkill and the main loop                                  *)
(***************************************************************************)
TitleProp == <<"t", "i", "t", "l", "e">>
ImpactProp == <<"i", "m", "p", "a", "c", "t">>
ImpactDescriptionProp ==
    <<"i", "m", "p", "a", "c", "t", "D", "e", "s", "c", "r", "i", "p", "t", "i", "o",
    "n">>
Medium == <<"M", "E", "D", "I", "U", "M">>
ConstructorProp == <<"c", "o", "n", "s", "t", "r", "u", "c", "t", "o", "r">>
ToStringProp == <<"t", "o", "S", "t", "r", "i", "n", "g">>
ValueOfProp == <<"v", "a", "l", "u", "e", "O", "f">>
HasOwnPropertyProp ==
    <<"h", "a", "s", "O", "w", "n", "P", "r", "o", "p", "e", "r", "t", "y">>
UndefinedText == <<"u", "n", "d", "e", "f", "i", "n", "e", "d">>
AgentsFile == <<"A", "G", "E", "N", "T", "S", ".", "m", "d">>
ReferencesDir == <<"r", "e", "f", "e", "r", "e", "n", "c", "e", "s", "/">>
VersionValue == <<"1", ".", "0">>
OrganizationValue == <<"O", "r", "g">>
DateValue == <<"2", "0", "2", "6">>
AbstractValue == <<"A", "b", "s">>
ReferenceValue ==
    <<"h", "t", "t", "p", "s", ":", "/", "/", "p", "o", "c", "k", "e", "t", "b", "a", "s",
    "e", ".", "i", "o", "/", "d", "o", "c", "s", "/">>
H1 == <<"#", " ">>
H2 == <<"#", "#", " ">>
H3 == <<"#", "#", "#", " ">>
Blank == <<"\n", "\n">>
ImpactOpen == <<"*", "*", "I", "m", "p", "a", "c", "t", ":", " ">>
BoldClose == <<"*", "*">>
Rule == <<"-", "-", "-", "\n", "\n">>
IndexTitle ==
    <<"#", " ", "P", "o", "c", "k", "e", "t", "B", "a", "s", "e", " ", "B", "e", "s", "t",
    " ", "P", "r", "a", "c", "t", "i", "c", "e", "s", "\n", "\n">>
VersionOpen == <<"*", "*", "V", "e", "r", "s", "i", "o", "n", " ">>
Quote == <<">", " ">>
CategoriesHead ==
    <<"#", "#", " ", "C", "a", "t", "e", "g", "o", "r", "i", "e", "s", "\n", "\n">>
CategoriesNote ==
    <<"D", "e", "t", "a", "i", "l", "e", "d", " ", "r", "u", "l", "e", "s", " ", "a", "r",
    "e", " ", "s", "p", "l", "i", "t", " ", "b", "y", " ", "c", "a", "t", "e", "g", "o",
    "r", "y", ".", " ", "L", "o", "a", "d", " ", "o", "n", "l", "y", " ", "t", "h", "e",
    " ", "r", "e", "l", "e", "v", "a", "n", "t", " ", "f", "i", "l", "e", ":", "\n",
    "\n">>
LinkMid == <<"]", "(", "r", "e", "f", "e", "r", "e", "n", "c", "e", "s", "/">>
LinkEnd == <<")", " ", "-", " ", "*", "*">>
ReferencesHead ==
    <<"-", "-", "-", "\n", "\n", "#", "#", " ", "R", "e", "f", "e", "r", "e", "n", "c",
    "e", "s", "\n", "\n">>
Bullet == <<"-", " ">>

\* properties every plain object inherits from Object.prototype (all truthy,
\* none an array); the ones the model's file names can spell
ObjectPrototypeProps == {ConstructorProp, ToStringProp, ValueOfProp, HasOwnPropertyProp, ProtoKey}

\* frontmatter.key || fallback: an own, non-empty value, else the fallback
PropOr(obj, k, fallback) ==
    IF HasOwn(obj, k) /\ OwnValue(obj, k) # <<>> THEN OwnValue(obj, k) ELSE fallback

\* file.replace('.md', ''): a string pattern replaces its first occurrence
ReplaceFirstMd(file) ==
    LET i == IndexOf(file, MdExt)
    IN IF i = 0 THEN file
       ELSE SubSeq(file, 1, i - 1) \o SubSeq(file, i + Len(MdExt), Len(file))

\* faulty variant: the text before the last hyphen
KeyBeforeLastHyphen(file) ==
    LET parts == Split(file, "-")
    IN IF Len(parts) = 1 THEN file ELSE Join(SubSeq(parts, 1, Len(parts) - 1), "-")

\* file.split('-')[0]
CategoryKey(file) == Split(file, "-")[1]

\* ruleContent.trim().replace(/^## [^\n]+\n+/, '')
CleanContent(ruleContent) ==
    LET c == Trim(ruleContent)
        headLen == RunLenNot(c, Len(H2) + 1, NL)
        nlLen == RunLen(c, Len(H2) + headLen + 1, {NL})
    IN IF StartsWith(c, H2) /\ headLen >= 1 /\ nlLen >= 1
       THEN SubSeq(c, Len(H2) + headLen + nlLen + 1, Len(c))
       ELSE c

\* lines 76-82
RuleRecord(file, content) ==
    LET parsed == parseMarkdownFrontmatter(content)
    IN [file |-> file,
        title |-> PropOr(parsed.frontmatter, TitleProp, ReplaceFirstMd(file)),
        impact |-> PropOr(parsed.frontmatter, ImpactProp, Medium),
        impactDescription |-> PropOr(parsed.frontmatter, ImpactDescriptionProp, <<>>),
        content |-> CleanContent(parsed.content)]

\* lines 62-65: rulesBySection[section.prefix] = []
RECURSIVE InitBuckets(_, _)
InitBuckets(obj, secs) ==
    IF secs = <<>> THEN obj
    ELSE InitBuckets({ q \in obj : q[1] # Head(secs).prefix } \cup {<<Head(secs).prefix, <<>>>>},
                     Tail(secs))

\* rulesBySection[prefix].push(rule)
Push(obj, prefix, rule) ==
    { q \in obj : q[1] # prefix } \cup {<<prefix, Append(OwnValue(obj, prefix), rule)>>}

\* rulesBySection[section.prefix] || []
Bucket(obj, prefix) == IF HasOwn(obj, prefix) THEN OwnValue(obj, prefix) ELSE <<>>

\* faulty variant: the listing filtered but not sorted
CollectUnsorted(names) == SelectSeq(names, IsRuleFile)

\* faulty variant: the listing sorted with only the extension test
CollectWithUnderscore(names) == SortNames(SelectSeq(names, LAMBDA f : EndsWith(f, MdExt)))

\* lines 57-59
CollectRuleFiles(names) == SortNames(SelectSeq(names, IsRuleFile))

\* a non-negative integer in decimal
RECURSIVE NumStr(_)
NumStr(n) ==
    IF n < 10 THEN <<Ascii[Code("0") + n]>>
    ELSE NumStr(n \div 10) \o <<Ascii[Code("0") + (n % 10)]>>

\* sectionName.toLowerCase()
LowerChar(c) == IF c \in Upper THEN Ascii[Code(c) - Code("A") + Code("a")] ELSE c

ToLowerCase(str) == [i \in 1..Len(str) |-> LowerChar(str[i])]

\* the length of the longest run of characters outside class cls starting at s[i]
RECURSIVE RunLenOutside(_, _, _)
RunLenOutside(s, i, cls) ==
    IF i <= Len(s) /\ s[i] \notin cls THEN 1 + RunLenOutside(s, i + 1, cls) ELSE 0

\* faulty variant: every character outside a-z0-9 becomes a hyphen of its own
RECURSIVE ReplaceEach(_)
ReplaceEach(str) ==
    IF str = <<>> THEN <<>>
    ELSE (IF Head(str) \in Lower \cup Digit THEN <<Head(str)>> ELSE <<"-">>)
         \o ReplaceEach(Tail(str))

\* .replace(/[^a-z0-9]+/g, '-'): every maximal run outside a-z0-9 becomes one hyphen
RECURSIVE CollapseRuns(_)
CollapseRuns(str) ==
    IF str = <<>> THEN <<>>
    ELSE IF Head(str) \in Lower \cup Digit THEN <<Head(str)>> \o CollapseRuns(Tail(str))
    ELSE <<"-">> \o CollapseRuns(SubSeq(str, RunLenOutside(str, 1, Lower \cup Digit) + 1,
                                         Len(str)))

RECURSIVE DropTrailingHyphens(_)
DropTrailingHyphens(str) ==
    IF str # <<>> /\ str[Len(str)] = "-"
    THEN DropTrailingHyphens(SubSeq(str, 1, Len(str) - 1)) ELSE str

\* .replace(/^-+|-+$/g, '')
StripHyphens(str) ==
    DropTrailingHyphens(SubSeq(str, RunLen(str, 1, {"-"}) + 1, Len(str)))

\* faulty variant: only blanks become hyphens, a slash of the name stays
FilenameKeepingSlashes(sectionName) ==
    [i \in 1..Len(sectionName) |->
        IF sectionName[i] = " " THEN "-" ELSE LowerChar(sectionName[i])] \o MdExt

\* lines 24-26
sectionToFilename(sectionName) == StripHyphens(CollapseRuns(ToLowerCase(sectionName))) \o MdExt

\* faulty variant: ruleNum is never incremented
RECURSIVE RenderRulesNoIncrement(_, _)
RenderRulesNoIncrement(rules, ruleNum) ==
    IF rules = <<>> THEN <<>>
    ELSE LET rule == Head(rules)
         IN H2 \o NumStr(ruleNum) \o DotSpace \o rule.title \o Blank
            \o ImpactOpen \o rule.impact
            \o (IF rule.impactDescription # <<>>
                THEN <<" ", "(">> \o rule.impactDescription \o <<")">> ELSE <<>>)
            \o BoldClose \o Blank
            \o rule.content \o Blank
            \o RenderRulesNoIncrement(Tail(rules), ruleNum)

\* lines 104-106
RECURSIVE RenderRules(_, _)
RenderRules(rules, ruleNum) ==
    IF rules = <<>> THEN <<>>
    ELSE LET rule == Head(rules)
         IN H2 \o NumStr(ruleNum) \o DotSpace \o rule.title \o Blank
            \o ImpactOpen \o rule.impact
            \o (IF rule.impactDescription # <<>>
                THEN <<" ", "(">> \o rule.impactDescription \o <<")">> ELSE <<>>)
            \o BoldClose \o Blank
            \o rule.content \o Blank
            \o RenderRules(Tail(rules), ruleNum + 1)

\* lines 97-107
RenderReference(section, sectionRules) ==
    H1 \o section.name \o Blank
    \o ImpactOpen \o section.impact \o BoldClose \o Blank
    \o section.description \o Blank \o Rule
    \o RenderRules(sectionRules, 1)

\* ${metadata.field}
MetaText(metadata, field, value) == IF field \in metadata.fields THEN value ELSE UndefinedText

\* lines 131-135
RECURSIVE RenderIndexRules(_, _, _)
RenderIndexRules(rules, num, ruleNum) ==
    IF rules = <<>> THEN <<>>
    ELSE Bullet \o NumStr(num) \o <<".">> \o NumStr(ruleNum) \o <<" ">> \o Head(rules).title
         \o <<NL>> \o RenderIndexRules(Tail(rules), num, ruleNum + 1)

\* lines 124-137
RECURSIVE RenderIndexSections(_, _)
RenderIndexSections(secs, buckets) ==
    IF secs = <<>> THEN <<>>
    ELSE LET section == Head(secs)
         IN H3 \o NumStr(section.num) \o DotSpace \o <<"[">> \o section.name \o LinkMid
            \o sectionToFilename(section.name) \o LinkEnd \o section.impact \o BoldClose
            \o Blank \o section.description \o Blank
            \o RenderIndexRules(Bucket(buckets, section.prefix), section.num, 1)
            \o <<NL>>
            \o RenderIndexSections(Tail(secs), buckets)

\* lines 115-142
RenderIndex(metadata, secs, buckets) ==
    IndexTitle
    \o VersionOpen \o MetaText(metadata, "version", VersionValue) \o BoldClose \o <<NL>>
    \o MetaText(metadata, "organization", OrganizationValue) \o <<NL>>
    \o MetaText(metadata, "date", DateValue) \o Blank
    \o Quote \o MetaText(metadata, "abstract", AbstractValue) \o Blank
    \o Rule
    \o CategoriesHead
    \o CategoriesNote
    \o RenderIndexSections(secs, buckets)
    \o ReferencesHead
    \o (IF "references" \in metadata.fields THEN Bullet \o ReferenceValue \o <<NL>> ELSE <<>>)

Write(skill, path, content) == [skill |-> skill, path |-> path, content |-> content]

\* faulty variant: a section without rules gets no reference file
RECURSIVE ReferenceWritesSkipEmpty(_, _, _)
ReferenceWritesSkipEmpty(skill, secs, buckets) ==
    IF secs = <<>> THEN <<>>
    ELSE (IF Bucket(buckets, Head(secs).prefix) = <<>> THEN <<>>
          ELSE <<Write(skill, ReferencesDir \o sectionToFilename(Head(secs).name),
                       RenderReference(Head(secs), Bucket(buckets, Head(secs).prefix)))>>)
         \o ReferenceWritesSkipEmpty(skill, Tail(secs), buckets)

\* lines 93-112: one writeFileSync per section, in registry order
RECURSIVE ReferenceWrites(_, _, _)
ReferenceWrites(skill, secs, buckets) ==
    IF secs = <<>> THEN <<>>
    ELSE <<Write(skill, ReferencesDir \o sectionToFilename(Head(secs).name),
                 RenderReference(Head(secs), Bucket(buckets, Head(secs).prefix)))>>
         \o ReferenceWrites(skill, Tail(secs), buckets)

Log(line, arg) == [line |-> line, arg |-> arg]

\* an exception nobody catches ends the node process
BuildCrash(code) ==
    /\ thrown' = code
    /\ bpc' = "crashed"

\* lines 154-157, 159: the next skill, or the end of the run
BuildAdvance(log) ==
    IF bSkill < Len(skills)
    THEN /\ bSkill' = bSkill + 1
         /\ bpc' = "skill"
         /\ bLog' = log \o <<Log("Building skill", bSkill + 1)>>
    ELSE /\ bpc' = "done"
         /\ bLog' = log \o <<Log("Build complete!", 0)>>
         /\ UNCHANGED bSkill

\* lines 149-155: the command starts
BuildStart ==
    /\ vpc = "idle" /\ bpc = "idle"
    /\ bpc' = "skill"
    /\ bSkill' = 1
    /\ bLog' = <<Log("Building skill", 1)>>
    /\ runSkills' = skills
    /\ UNCHANGED <<parseVars, skills, thrown, validateVars, sections, ruleFiles,
                   rulesBySection, bFile, written, disk, rebuilds, prevWritten, prevDisk,
                   prevSkills>>

\* buildSkill lines 29-65: metadata, registry, listing, empty buckets
BuildSkillBegin ==
    /\ bpc = "skill"
    /\ LET skill == skills[bSkill]
           rules == skill.rules
           secs == ParseSections(IF rules.registry.present THEN rules.registry.text ELSE <<>>)
       IN IF skill.metadata.state = "absent" \/ rules.state = "absent"
          THEN /\ BuildAdvance(Append(bLog, Log("Missing metadata.json or rules directory",
                                                bSkill)))
               /\ UNCHANGED <<thrown, sections, ruleFiles, rulesBySection, bFile>>
          ELSE IF skill.metadata.state = "unreadable"
          THEN /\ BuildCrash("EACCES")
               /\ UNCHANGED <<bSkill, sections, ruleFiles, rulesBySection, bFile, bLog>>
          ELSE IF skill.metadata.state = "badjson"
          THEN /\ BuildCrash("SyntaxError")
               /\ UNCHANGED <<bSkill, sections, ruleFiles, rulesBySection, bFile, bLog>>
          ELSE IF rules.state = "notdir"
          THEN /\ BuildCrash("ENOTDIR")
               /\ UNCHANGED <<bSkill, sections, ruleFiles, rulesBySection, bFile, bLog>>
          ELSE /\ sections' = secs
               /\ ruleFiles' = CollectRuleFiles(Readdir(rules))
               /\ rulesBySection' = InitBuckets({}, secs)
               /\ bFile' = 1
               /\ bpc' = "group"
               /\ UNCHANGED <<thrown, bSkill, bLog>>
    /\ UNCHANGED <<parseVars, skills, validateVars, written, outVars>>

\* lines 67-84: one iteration of the loop over ruleFiles
BuildRule ==
    /\ bpc = "group" /\ bFile <= Len(ruleFiles)
    /\ LET file == ruleFiles[bFile]
           entry == Entry(skills[bSkill].rules, file)
           prefix == CategoryKey(file)
       IN IF entry.kind # "file"
          THEN /\ BuildCrash("EISDIR")
               /\ UNCHANGED <<rulesBySection, bFile>>
          ELSE IF HasOwn(rulesBySection, prefix)
          THEN /\ rulesBySection' = Push(rulesBySection, prefix, RuleRecord(file, entry.content))
               /\ bFile' = bFile + 1
               /\ UNCHANGED <<thrown, bpc>>
          ELSE IF prefix \in ObjectPrototypeProps
          THEN \* the inherited value is truthy and has no push method
               /\ BuildCrash("TypeError")
               /\ UNCHANGED <<rulesBySection, bFile>>
          ELSE /\ bFile' = bFile + 1
               /\ UNCHANGED <<thrown, bpc, rulesBySection>>
    /\ UNCHANGED <<parseVars, skills, validateVars, bSkill, sections, ruleFiles, written, bLog,
                   outVars>>

\* the writeFileSync calls of buildSkill, in order
SkillWrites(skill, metadata, secs, buckets) ==
    ReferenceWrites(skill, secs, buckets)
    \o (IF metadata.state = "null" THEN <<>>
        ELSE <<Write(skill, AgentsFile, RenderIndex(metadata, secs, buckets))>>)

\* faulty variant: the text is added to the end of the file that is there
AppendFile(files, w) ==
    IF \E f \in files : f.skill = w.skill /\ f.path = w.path
    THEN { IF f.skill = w.skill /\ f.path = w.path
           THEN Write(f.skill, f.path, f.content \o w.content) ELSE f : f \in files }
    ELSE files \cup {w}

\* fs.writeFileSync(path, text): the file is created or replaced; nothing else
\* under the skill directory is touched
WriteFile(files, w) ==
    { f \in files : ~(f.skill = w.skill /\ f.path = w.path) } \cup {w}

RECURSIVE WriteFiles(_, _)
WriteFiles(files, ws) ==
    IF ws = <<>> THEN files ELSE WriteFiles(WriteFile(files, Head(ws)), Tail(ws))

\* lines 86-146: the reference files, then AGENTS.md; back to the main loop
BuildOutputs ==
    /\ bpc = "group" /\ bFile > Len(ruleFiles)
    /\ written' = written
                    \o SkillWrites(bSkill, skills[bSkill].metadata, sections, rulesBySection)
    /\ disk' = WriteFiles(disk, SkillWrites(bSkill, skills[bSkill].metadata, sections,
                                            rulesBySection))
    /\ IF skills[bSkill].metadata.state = "null"
       THEN \* line 116: metadata.version of null throws a TypeError
            /\ BuildCrash("TypeError: metadata is null")
            /\ bLog' = bLog \o [i \in 1..Len(sections) |-> Log("Built: references", i)]
            /\ UNCHANGED bSkill
       ELSE /\ BuildAdvance(bLog \o [i \in 1..Len(sections) |->
                                       Log("Built: references", i)]
                                \o <<Log("Built: AGENTS.md", bSkill)>>)
            /\ UNCHANGED thrown
    /\ UNCHANGED <<parseVars, skills, validateVars, sections, ruleFiles,
                   rulesBySection, bFile, rebuilds, prevWritten, prevDisk, runSkills,
                   prevSkills>>

BuildNext ==
    \/ BuildStart
    \/ BuildSkillBegin
    \/ BuildRule
    \/ BuildOutputs

ToolsNext == ValidateNext \/ BuildNext

Spec == ToolsInit /\ [][ToolsNext]_vars

(***************************************************************************)
(* sectionToFilename on its own                                            *)
(***************************************************************************)
MaxNameLen == 4

NameChars == {"A", "b", "1", " ", "-", "&"}

SectionNames == UNION { [1..n -> NameChars] : n \in 0..MaxNameLen }

\* the file name without the .md that sectionToFilename appends
Stem(file) == SubSeq(file, 1, Len(file) - Len(MdExt))

SlugInit ==
    /\ ToolsOff
    /\ ppc = "off" /\ pair = NoPair /\ doc = <<>> /\ res = NoRes
    /\ spc = "name" /\ slugName \in SectionNames /\ filename = <<>> /\ refile = <<>>

\* sectionToFilename(sectionName)
SlugStep ==
    /\ spc = "name"
    /\ filename' = sectionToFilename(slugName)
    /\ spc' = "slug"
    /\ UNCHANGED <<ppc, pair, doc, res, slugName, refile, skills, thrown, validateVars,
                   buildVars>>

\* sectionToFilename applied to the stem it returned
ReslugStep ==
    /\ spc = "slug"
    /\ refile' = sectionToFilename(Stem(filename))
    /\ spc' = "again"
    /\ UNCHANGED <<ppc, pair, doc, res, slugName, filename, skills, thrown, validateVars,
                   buildVars>>

SlugNext == SlugStep \/ ReslugStep

SpecSlug == SlugInit /\ [][SlugNext]_vars

(***************************************************************************)
(* build run again, with edits of the inputs between the runs              *)
(***************************************************************************)
MaxRebuilds == 1

RebuildListings ==
    { <<>>,
      <<File(WidgetBFile, DocB), File(WidgetAFile, DocA)>>,
      <<File(GadgetAFile, DocFull), File(WidgetAFile, DocA)>>,
      <<File(WidgetAFile, DocA), Dir(AuthBFile)>> }

RebuildDirs ==
    { Skill(TRUE, MetaFull, RulesDir(r, es)) :
        r \in CatalogueRegistries, es \in RebuildListings }

RebuildTrees ==
    { <<d>> : d \in RebuildDirs }
    \cup { <<Skill(TRUE, MetaFull, CleanRules),
             Skill(TRUE, MetaFull, RulesDir(Registry(RegistryShop),
                                            <<File(GadgetAFile, DocFull)>>))>>,
           <<Skill(TRUE, Meta("absent", {}), CleanRules),
             Skill(TRUE, MetaFull, RulesDir(Registry(RegistryWidgets),
                                            <<File(WidgetAFile, DocA)>>))>> }

RebuildInit ==
    /\ ParserOff
    /\ skills \in RebuildTrees
    /\ thrown = ""
    /\ vpc = "idle" /\ vSkill = 0 /\ vErrors = <<>> /\ vWarnings = <<>> /\ vRuleFiles = <<>>
    /\ vFile = 0 /\ hasErrors = FALSE /\ vReports = <<>> /\ exitStatus = -1
    /\ bpc = "idle" /\ bSkill = 0 /\ sections = <<>> /\ ruleFiles = <<>>
    /\ rulesBySection = {} /\ bFile = 0 /\ written = <<>> /\ bLog = <<>>
    /\ disk = {} /\ rebuilds = 0 /\ prevWritten = <<>> /\ prevDisk = {}
    /\ runSkills = <<>> /\ prevSkills = <<>>

\* the last run is over and another one may follow
BetweenRuns == bpc \in {"done", "crashed"} /\ rebuilds < MaxRebuilds

\* lines 149-155: the command is started again; what the earlier runs wrote is
\* still on disk
BuildAgain ==
    /\ BetweenRuns
    /\ rebuilds' = rebuilds + 1
    /\ prevWritten' = written
    /\ prevDisk' = disk
    /\ prevSkills' = runSkills
    /\ runSkills' = skills
    /\ bpc' = "skill"
    /\ bSkill' = 1
    /\ bLog' = <<Log("Building skill", 1)>>
    /\ thrown' = ""
    /\ sections' = <<>> /\ ruleFiles' = <<>> /\ rulesBySection' = {} /\ bFile' = 0
    /\ written' = <<>>
    /\ UNCHANGED <<parseVars, skills, validateVars, disk>>

\* an author replaces rules/_sections.md of one skill between two runs
EditRegistry ==
    /\ BetweenRuns /\ skills = runSkills
    /\ \E k \in 1..Len(skills) : \E r \in CatalogueRegistries :
          /\ skills[k].rules.state = "dir"
          /\ r # skills[k].rules.registry
          /\ skills' = [skills EXCEPT ![k].rules.registry = r]
    /\ UNCHANGED <<parseVars, thrown, validateVars, buildVars>>

\* an author adds, removes or rewrites rule files of one skill between two runs
EditRuleFiles ==
    /\ BetweenRuns /\ skills = runSkills
    /\ \E k \in 1..Len(skills) : \E es \in RebuildListings :
          /\ skills[k].rules.state = "dir"
          /\ es # skills[k].rules.entries
          /\ skills' = [skills EXCEPT ![k].rules.entries = es]
    /\ UNCHANGED <<parseVars, thrown, validateVars, buildVars>>

RebuildNext == BuildNext \/ BuildAgain \/ EditRegistry \/ EditRuleFiles

SpecRebuild == RebuildInit /\ [][RebuildNext]_vars

(***************************************************************************)
(* The frontmatter claims read a document by its lines.                    *)
(***************************************************************************)
DocLines(d) == Split(d, NL)

\* the index of the first line after the first that is exactly "---"; 0 if none
ClosingLine(d) ==
    LET ls == DocLines(d)
    IN IF \E j \in 2..Len(ls) : ls[j] = Dashes
       THEN CHOOSE j \in 2..Len(ls) : ls[j] = Dashes /\ \A i \in 2..(j - 1) : ls[i] # Dashes
       ELSE 0

OpensWithDelimiterLine(d) == DocLines(d)[1] = Dashes

HasLeadingBlock(d) == OpensWithDelimiterLine(d) /\ ClosingLine(d) > 0

BlockLines(d) == SubSeq(DocLines(d), 2, ClosingLine(d) - 1)

TextAfterClosingLine(d) ==
    LET ls == DocLines(d) IN Join(SubSeq(ls, ClosingLine(d) + 1, Len(ls)), NL)

HasColon(line) == IndexOf(line, <<":">>) > 0

BeforeFirstColon(line) == SubSeq(line, 1, IndexOf(line, <<":">>) - 1)

AfterFirstColon(line) == SubSeq(line, IndexOf(line, <<":">>) + 1, Len(line))

IsKeyValueLine(line) == HasColon(line) /\ BeforeFirstColon(line) # <<>>

\* C3: when the document has a leading frontmatter block (it opens with a "---"
\* line and a later line is "---"), every "key: value" line of the block is an
\* entry keyed by the trimmed text before its first colon, valued by the trimmed
\* text after that colon, and the body is the text after the closing line.
C3_BlockParsedByFirstColon ==
    (ppc = "parsed" /\ ~pair.given /\ HasLeadingBlock(doc)) =>
        /\ \A i \in 1..Len(BlockLines(doc)) :
              LET line == BlockLines(doc)[i]
              IN IsKeyValueLine(line) =>
                    <<Trim(BeforeFirstColon(line)), Trim(AfterFirstColon(line))>>
                        \in res.frontmatter
        /\ res.content = TextAfterClosingLine(doc)

\* C4: a text that does not begin with "---" comes back as the body, with an
\* empty mapping.
C4_NoDelimiterUnchanged ==
    (ppc = "parsed" /\ ~StartsWith(doc, Dashes)) =>
        res.frontmatter = EmptyObj /\ res.content = doc

C4_Witness ==
    ppc = "parsed" /\ ~StartsWith(doc, Dashes) /\ Includes(doc, CloseDelim)
        /\ Includes(doc, <<"\n">> \o OpenDelim \o <<"a", ":">>)

\* C5: a text that opens with a "---" line and has no later "---" line comes
\* back whole as the body, with an empty mapping.
C5_UnclosedFallsBack ==
    (ppc = "parsed" /\ OpensWithDelimiterLine(doc) /\ ClosingLine(doc) = 0) =>
        res.frontmatter = EmptyObj /\ res.content = doc

C5_Witness ==
    ppc = "parsed" /\ OpensWithDelimiterLine(doc) /\ ClosingLine(doc) = 0
        /\ Len(DocLines(doc)) >= 3 /\ Includes(doc, <<"a", ":">>)

PairMapping(p) == { p.entries[i] : i \in 1..Len(p.entries) }

\* C6: parsing the serialized form of a (mapping, body) pair gives back the
\* mapping and the body, the empty mapping included.
C6_RoundTrip ==
    (ppc = "parsed" /\ pair.given) =>
        res.frontmatter = PairMapping(pair) /\ res.content = pair.body

(***************************************************************************)
(* The claims about the two commands                                       *)
(***************************************************************************)
Range(seq) == { seq[i] : i \in 1..Len(seq) }

\* an error was pushed for some skill of the run
ErrorRecorded ==
    \/ \E i \in 1..Len(vReports) : vReports[i].errors # <<>>
    \/ vErrors # <<>>

ValidateEnded == vpc \in {"exited", "crashed"}

\* C1: the validate process ends with status 1 exactly when an error was
\* recorded for some skill, and with status 0 otherwise.
C1_ExitStatusIffErrors ==
    ValidateEnded =>
        /\ exitStatus \in {0, 1}
        /\ exitStatus = 1 <=> ErrorRecorded

\* C2: whatever is under skills/, validate throws nothing uncaught: it scans
\* every skill and prints every report before the exit status is decided.
C2_ValidateNeverThrows ==
    /\ vpc # "crashed"
    /\ ValidateEnded => Len(vReports) = Len(skills)

\* the text of a file name before its first hyphen (the whole name without one)
BeforeFirstHyphen(file) ==
    IF \E i \in 1..Len(file) : file[i] = "-"
    THEN SubSeq(file, 1, (CHOOSE i \in 1..Len(file) :
                            file[i] = "-" /\ \A j \in 1..(i - 1) : file[j] # "-") - 1)
    ELSE file

\* the collector's variables hold the grouping of skill bSkill
Grouping == bpc = "group" \/ (bpc = "crashed" /\ thrown \in {"EISDIR", "TypeError"})

BucketFiles(prefix) ==
    { Bucket(rulesBySection, prefix)[i].file :
        i \in 1..Len(Bucket(rulesBySection, prefix)) }

Prefixes == { sections[j].prefix : j \in 1..Len(sections) }

QueryPrefix == <<"q", "u", "e", "r", "y">>

\* C7: every rule file the collector has gone through is in the bucket of the
\* section whose prefix is the file name's text before its first hyphen, and in
\* no other bucket.
C7_BucketByFirstHyphen ==
    Grouping =>
        \A i \in 1..(bFile - 1) : \A prefix \in Prefixes :
            ruleFiles[i] \in BucketFiles(prefix) <=> prefix = BeforeFirstHyphen(ruleFiles[i])

C7_Witness ==
    /\ bpc = "group" /\ bFile > Len(ruleFiles)
    /\ QueryBatchFile \in BucketFiles(QueryPrefix)
    /\ QueryBatchFile \in Range(ruleFiles)
    /\ Cardinality(Prefixes) = 2

IsOrphan(file) == BeforeFirstHyphen(file) \notin Prefixes

\* C8: a rule file whose key is no section's prefix, whatever the key, makes
\* the build raise nothing and lands in no bucket.
C8_OrphanDroppedSilently ==
    Grouping =>
        /\ \A i \in 1..(bFile - 1) : \A prefix \in Prefixes :
              IsOrphan(ruleFiles[i]) => ruleFiles[i] \notin BucketFiles(prefix)
        /\ ~(/\ bpc = "crashed"
             /\ IsOrphan(ruleFiles[bFile])
             /\ Entry(skills[bSkill].rules, ruleFiles[bFile]).kind = "file")

\* the entries of a rules directory that name rule files
ExpectedRuleFiles(rules) ==
    { n \in Range(Readdir(rules)) :
        /\ Len(n) >= 3 /\ SubSeq(n, Len(n) - 2, Len(n)) = <<".", "m", "d">>
        /\ n[1] # "_" }

\* C9: the build goes through exactly the entries named *.md and not _*, in
\* sorted order; no underscore file is ever bucketed; validate checks the same
\* set of files as build collects from the directory.
C9_SameRuleFileSet ==
    /\ Grouping =>
          /\ Range(ruleFiles) = ExpectedRuleFiles(skills[bSkill].rules)
          /\ \A i, j \in 1..Len(ruleFiles) : i < j => StrLess(ruleFiles[i], ruleFiles[j])
          /\ \A prefix \in Prefixes : \A f \in BucketFiles(prefix) :
                f[1] # "_" /\ f \in Range(SubSeq(ruleFiles, 1, bFile - 1))
    /\ vpc = "files" =>
          /\ Range(vRuleFiles) = ExpectedRuleFiles(skills[vSkill].rules)
          /\ Range(vRuleFiles) = Range(CollectRuleFiles(Readdir(skills[vSkill].rules)))

\* build has gone through three entries listed out of order, next to _template.md
C9_Witness ==
    /\ bpc = "group" /\ bFile > Len(ruleFiles) /\ Len(ruleFiles) = 2
    /\ Readdir(skills[bSkill].rules)
         = <<SectionsFile, QueryBatchFile, TemplateFile, AuthAFile>>
    /\ ruleFiles = <<AuthAFile, QueryBatchFile>>

\* validate has listed a directory that holds reserved and foreign entries
C9_ValidateWitness ==
    /\ vpc = "files" /\ Len(vRuleFiles) = 1
    /\ Len(Readdir(skills[vSkill].rules)) = 4

\* the file name without its trailing .md
WithoutExtension(file) ==
    IF Len(file) >= 3 /\ SubSeq(file, Len(file) - 2, Len(file)) = <<".", "m", "d">>
    THEN SubSeq(file, 1, Len(file) - 3) ELSE file

\* C10: a bucketed rule without a title is titled by its file name minus the
\* trailing .md, one without an impact has impact MEDIUM, and a non-empty
\* title or impact of the frontmatter is used as it is.
C10_TitleImpactDefaults ==
    Grouping =>
        \A prefix \in Prefixes : \A i \in 1..Len(Bucket(rulesBySection, prefix)) :
            LET rule == Bucket(rulesBySection, prefix)[i]
                fm == parseMarkdownFrontmatter(
                          Entry(skills[bSkill].rules, rule.file).content).frontmatter
            IN /\ ~HasOwn(fm, TitleProp) => rule.title = WithoutExtension(rule.file)
               /\ ~HasOwn(fm, ImpactProp) => rule.impact = Medium
               /\ (HasOwn(fm, TitleProp) /\ OwnValue(fm, TitleProp) # <<>>)
                     => rule.title = OwnValue(fm, TitleProp)
               /\ (HasOwn(fm, ImpactProp) /\ OwnValue(fm, ImpactProp) # <<>>)
                     => rule.impact = OwnValue(fm, ImpactProp)

(***************************************************************************)
(* The claims about the compiled documents                                 *)
(***************************************************************************)
\* the writeFileSync calls of the run for skill k, in order
WritesOf(k) == SelectSeq(written, LAMBDA w : w.skill = k)

\* skill k was compiled by the run and its inputs are as the run read them
Built(k) ==
    /\ WritesOf(k) # <<>> /\ skills = runSkills
    /\ WritesOf(k)[Len(WritesOf(k))].path = AgentsFile

SectionsOf(k) ==
    ParseSections(IF skills[k].rules.registry.present THEN skills[k].rules.registry.text
                  ELSE <<>>)

\* the elements of a finite set of names as an increasing sequence
Ascending(names) ==
    CHOOSE seq \in [1..Cardinality(names) -> names] :
        \A i, j \in 1..Cardinality(names) : i < j => StrLess(seq[i], seq[j])

\* the rule files of skill k keyed by prefix, in sorted-filename order
SectionFiles(k, prefix) ==
    Ascending({ f \in ExpectedRuleFiles(skills[k].rules) : BeforeFirstHyphen(f) = prefix })

TitleOf(k, file) == RuleRecord(file, Entry(skills[k].rules, file).content).title

Indices(seq) == [i \in 1..Len(seq) |-> i]

\* a line "## <digits>. <text>"
IsNumberedHeading(line) ==
    /\ StartsWith(line, H2)
    /\ RunLen(line, 4, Digit) >= 1
    /\ OccursAt(line, DotSpace, 4 + RunLen(line, 4, Digit))

\* the rule headings of a reference document: the numbered headings that are
\* followed by a blank line and the rule's impact line
RuleHeadings(text) ==
    LET ls == DocLines(text)
        at == SelectSeq(Indices(ls), LAMBDA i :
                  /\ IsNumberedHeading(ls[i])
                  /\ i + 2 <= Len(ls) /\ ls[i + 1] = <<>> /\ StartsWith(ls[i + 2], ImpactOpen))
    IN [n \in 1..Len(at) |-> ls[at[n]]]

\* the bullet lines under the j-th "### " heading of the index
IndexBullets(text, j) ==
    LET ls == DocLines(text)
        heads == SelectSeq(Indices(ls), LAMBDA i : StartsWith(ls[i], H3))
        ends == { i \in (heads[j] + 1)..Len(ls) : StartsWith(ls[i], H3) \/ ls[i] = Dashes }
        end == IF ends = {} THEN Len(ls) + 1
               ELSE CHOOSE i \in ends : \A e \in ends : i <= e
    IN SelectSeq(SubSeq(ls, heads[j] + 1, end - 1), LAMBDA l : StartsWith(l, Bullet))

IndexText(k) == WritesOf(k)[Len(WritesOf(k))].content

\* C11: in the reference document of every section and in the index, the rules
\* of the section (its prefix's rule files in sorted-filename order) carry the
\* ordinals 1, 2, ..., n in that order, whatever the section's number.
C11_OrdinalsPerSection ==
    \A k \in 1..Len(skills) : Built(k) =>
        \A j \in 1..Len(SectionsOf(k)) :
            LET sec == SectionsOf(k)[j]
                files == SectionFiles(k, sec.prefix)
            IN /\ RuleHeadings(WritesOf(k)[j].content)
                    = [i \in 1..Len(files) |->
                          H2 \o NumStr(i) \o DotSpace \o TitleOf(k, files[i])]
               /\ IndexBullets(IndexText(k), j)
                    = [i \in 1..Len(files) |->
                          Bullet \o NumStr(sec.num) \o <<".">> \o NumStr(i) \o <<" ">>
                              \o TitleOf(k, files[i])]

WidgetsReference ==
    <<"r", "e", "f", "e", "r", "e", "n", "c", "e", "s", "/", "w", "i", "d", "g", "e",
    "t", "s", ".", "m", "d">>
HeadingOneA == <<"#", "#", " ", "1", ".", " ", "A", "\n">>
HeadingTwoB == <<"#", "#", " ", "2", ".", " ", "B", "\n">>
BulletsSevenAB ==
    <<"-", " ", "7", ".", "1", " ", "A", "\n", "-", " ", "7", ".", "2", " ", "B", "\n">>

\* widget-b.md listed before widget-a.md under section 7, Widgets
C11_Witness ==
    /\ bpc = "done"
    /\ skills[1].rules.registry.text = RegistryShop
    /\ Readdir(skills[1].rules) = <<SectionsFile, WidgetBFile, WidgetAFile>>
    /\ \E w \in Range(written) :
          /\ w.path = WidgetsReference
          /\ IndexOf(w.content, HeadingOneA) > 0
          /\ IndexOf(w.content, HeadingOneA) < IndexOf(w.content, HeadingTwoB)
    /\ Includes(IndexText(1), BulletsSevenAB)

\* the text of a numbered line after its first ". " or after its first " "
AfterFirst(line, sep) == SubSeq(line, IndexOf(line, sep) + Len(sep), Len(line))

\* the titles listed under the j-th section of the index
IndexTitles(text, j) ==
    LET bs == IndexBullets(text, j) IN [i \in 1..Len(bs) |-> AfterFirst(Tail(Tail(bs[i])), <<" ">>)]

\* the path the j-th section heading of the index links
LinkedPath(text, j) ==
    LET ls == DocLines(text)
        heads == SelectSeq(Indices(ls), LAMBDA i : StartsWith(ls[i], H3))
        line == ls[heads[j]]
        open == IndexOf(line, <<"]", "(">>)
    IN SubSeq(line, open + 2, IndexFrom(line, <<")">>, open) - 1)

\* the text of the generated file of skill k at path
DiskText(k, path) == (CHOOSE f \in disk : f.skill = k /\ f.path = path).content

\* the titles of the "## N. <title>" headings of a document
HeadingTitles(text) ==
    LET hs == SelectSeq(DocLines(text), IsNumberedHeading)
    IN [i \in 1..Len(hs) |-> AfterFirst(hs[i], DotSpace)]

\* C12: after a build, the titles listed under a section of the index are, in
\* content and order, the titles of the "## N. <title>" headings of the
\* reference document which the index links for that section.
C12_IndexMatchesReference ==
    \A k \in 1..Len(skills) : Built(k) =>
        \A j \in 1..Len(SectionsOf(k)) :
            IndexTitles(IndexText(k), j)
                = HeadingTitles(DiskText(k, LinkedPath(IndexText(k), j)))

(***************************************************************************)
(* The claims about repeated builds                                        *)
(***************************************************************************)
RunEnded == bpc \in {"done", "crashed"}

\* C13: a build run over the inputs the run before it read makes the same
\* writeFileSync calls with the same texts in the same order, and leaves every
\* generated file as the run before it left it.
C13_RebuildIdempotent ==
    (RunEnded /\ rebuilds >= 1 /\ runSkills = prevSkills) =>
        /\ written = prevWritten
        /\ disk = prevDisk

\* the second run has written two reference documents and the index again
C13_Witness ==
    /\ bpc = "done" /\ rebuilds >= 1 /\ runSkills = prevSkills
    /\ Len(written) >= 3
    /\ Cardinality(disk) >= 3

\* the paths of the generated reference documents of skill k
ReferencePaths(k) ==
    { f.path : f \in { g \in disk : g.skill = k /\ StartsWith(g.path, ReferencesDir) } }

\* C14: when a run has ended, whatever builds and edits came before it, the
\* generated files of every compiled skill are those a build of the present
\* inputs writes: references/ holds one file per defined section and no other.
C14_OutputOfLastBuildOnly ==
    (bpc = "done" /\ skills = runSkills) =>
        \A k \in 1..Len(skills) : WritesOf(k) # <<>> =>
            /\ ReferencePaths(k)
                 = { ReferencesDir \o sectionToFilename(SectionsOf(k)[j].name) :
                       j \in 1..Len(SectionsOf(k)) }
            /\ { f \in disk : f.skill = k } = WriteFiles({}, WritesOf(k))

\* the sections of skill k whose reference document renders rule file f
RenderedUnder(k, f) ==
    { j \in 1..Len(SectionsOf(k)) :
        \E h \in Range(RuleHeadings(WritesOf(k)[j].content)) :
            AfterFirst(h, DotSpace) = TitleOf(k, f) }

\* C15: in every build a collected rule file is rendered under exactly one
\* section when its filename prefix is the prefix of a section of the registry,
\* and under no section otherwise.
C15_RenderedUnderOneSection ==
    \A k \in 1..Len(skills) : Built(k) =>
        \A f \in ExpectedRuleFiles(skills[k].rules) :
            Cardinality(RenderedUnder(k, f))
                = IF \E j \in 1..Len(SectionsOf(k)) :
                        SectionsOf(k)[j].prefix = BeforeFirstHyphen(f)
                  THEN 1 ELSE 0

(***************************************************************************)
(* The claims about the checks of validate                                 *)
(***************************************************************************)
\* skill k has been reported
Reported(k) == k <= Len(vReports)

\* the errors and warnings recorded so far for skill k
ErrorsOf(k) == IF Reported(k) THEN vReports[k].errors ELSE IF k = vSkill THEN vErrors ELSE <<>>

WarningsOf(k) ==
    IF Reported(k) THEN vReports[k].warnings ELSE IF k = vSkill THEN vWarnings ELSE <<>>

\* the rule files of skill k the loop of validateSkill has gone through
FilesChecked(k) ==
    IF Reported(k) THEN ExpectedRuleFiles(skills[k].rules)
    ELSE IF k = vSkill /\ vFile >= 1 THEN Range(SubSeq(vRuleFiles, 1, vFile - 1))
    ELSE {}

ContentOf(k, f) == Entry(skills[k].rules, f).content

About(msgs, f) == SelectSeq(msgs, LAMBDA m : m.file = f)

MsgTexts(msgs) == [i \in 1..Len(msgs) |-> msgs[i].msg]

\* C16: a rule file that does not begin with "---" gets exactly one error, the
\* missing-frontmatter error, and nothing else is recorded for it; the run
\* ends with exit status 1.
C16_MissingFrontmatterOnly ==
    \A k \in 1..Len(skills) : \A f \in FilesChecked(k) :
        ~StartsWith(ContentOf(k, f), Dashes) =>
            /\ MsgTexts(About(ErrorsOf(k), f)) = <<"Missing frontmatter">>
            /\ About(WarningsOf(k), f) = <<>>
            /\ ValidateEnded => exitStatus = 1

\* validate has exited after checking a file without frontmatter and another file
C16_Witness ==
    /\ vpc = "exited" /\ exitStatus = 1
    /\ \E f \in FilesChecked(1) : ContentOf(1, f) = DocNoFrontmatter
    /\ Cardinality(FilesChecked(1)) >= 2

\* the keys of the leading frontmatter block of a rule file, read line by line
BlockKeys(content) ==
    IF ~HasLeadingBlock(content) THEN {}
    ELSE { Trim(BeforeFirstColon(l)) : l \in { b \in Range(BlockLines(content)) : HasColon(b) } }

\* the text after the frontmatter block
BodyOf(content) == IF HasLeadingBlock(content) THEN TextAfterClosingLine(content) ELSE content

HasBothMarkers(text) == Includes(text, IncorrectMark) /\ Includes(text, CorrectMark)

\* a rule file with nothing to report: title and impact keys, both markers in the body
CleanRuleFile(content) ==
    /\ HasLeadingBlock(content)
    /\ TitleProp \in BlockKeys(content) /\ ImpactProp \in BlockKeys(content)
    /\ HasBothMarkers(BodyOf(content))

\* as CleanRuleFile, but without an impact key
LacksOnlyImpact(content) ==
    /\ HasLeadingBlock(content)
    /\ TitleProp \in BlockKeys(content) /\ ImpactProp \notin BlockKeys(content)
    /\ HasBothMarkers(BodyOf(content))

\* a skill directory with nothing to report outside its rule files
SoundOutsideRuleFiles(skill) ==
    /\ skill.skillMd /\ skill.metadata = MetaFull
    /\ skill.rules.state = "dir" /\ skill.rules.registry.present
    /\ \A i \in 1..Len(skill.rules.entries) : skill.rules.entries[i].kind = "file"

\* skills/ holds one skill whose only defect is one rule file without an impact key
OnlyDefectMissingImpact ==
    /\ Len(skills) = 1 /\ SoundOutsideRuleFiles(skills[1])
    /\ \E f \in ExpectedRuleFiles(skills[1].rules) :
          /\ LacksOnlyImpact(ContentOf(1, f))
          /\ \A g \in ExpectedRuleFiles(skills[1].rules) \ {f} : CleanRuleFile(ContentOf(1, g))

\* C17: for a skill whose only defect is one rule file with a title key and
\* no impact key, validate records exactly one warning and no error and exits
\* with status 0.
C17_OneWarningForMissingImpact ==
    (ValidateEnded /\ OnlyDefectMissingImpact) =>
        /\ Len(WarningsOf(1)) = 1
        /\ ErrorsOf(1) = <<>>
        /\ exitStatus = 0

MissingPatternWarned(k, f) ==
    \E i \in 1..Len(WarningsOf(k)) :
        WarningsOf(k)[i] = Msg(f, "Missing Incorrect/Correct pattern")

\* the frontmatter block of a rule file is opened, closed and not empty
WellFormedFrontmatter(content) == HasLeadingBlock(content) /\ BlockLines(content) # <<>>

MissingTitleReported(k, f) ==
    \E i \in 1..Len(ErrorsOf(k)) : ErrorsOf(k)[i] = Msg(f, "Missing title in frontmatter")

\* C19: a rule file whose frontmatter block is opened and closed gets the
\* missing-title error exactly when no line of the block has the key title;
\* the text "title:" inside another key or inside a value is not the key.
C19_MissingTitleIffNoTitleKey ==
    \A k \in 1..Len(skills) : \A f \in FilesChecked(k) :
        WellFormedFrontmatter(ContentOf(k, f)) =>
            (MissingTitleReported(k, f) <=> TitleProp \notin BlockKeys(ContentOf(k, f)))

\* validateSkill has made its checks of lines 13-29 for skill k
RequiredChecked(k) == Reported(k) \/ (k = vSkill /\ vpc # "skill")

RequiredItemTexts ==
    {"Missing required file: SKILL.md", "Missing required file: metadata.json",
     "Missing rules directory"}

\* the errors the missing required items of a skill directory call for
ExpectedRequiredTexts(skill) ==
    (IF skill.skillMd THEN <<>> ELSE <<"Missing required file: SKILL.md">>)
    \o (IF skill.metadata.state = "absent" THEN <<"Missing required file: metadata.json">>
        ELSE <<>>)
    \o (IF skill.rules.state = "absent" THEN <<"Missing rules directory">> ELSE <<>>)

\* skills/ holds one skill whose only defect is that rules/_sections.md is missing
OnlyDefectMissingRegistry ==
    /\ Len(skills) = 1
    /\ skills[1].skillMd /\ skills[1].metadata = MetaFull
    /\ skills[1].rules.state = "dir" /\ ~skills[1].rules.registry.present
    /\ \A i \in 1..Len(skills[1].rules.entries) : skills[1].rules.entries[i].kind = "file"
    /\ \A f \in ExpectedRuleFiles(skills[1].rules) : CleanRuleFile(ContentOf(1, f))

\* C20: validate records one error for each missing item among SKILL.md,
\* metadata.json and the rules directory; when rules exists and _sections.md
\* does not, it records one warning for that and no error, and a skill with no
\* other defect ends with exit status 0.
C20_RequiredItemsAndRegistry ==
    /\ \A k \in 1..Len(skills) : RequiredChecked(k) =>
          /\ SelectSeq(MsgTexts(ErrorsOf(k)), LAMBDA t : t \in RequiredItemTexts)
                = ExpectedRequiredTexts(skills[k])
          /\ (skills[k].rules.state # "absent" /\ ~skills[k].rules.registry.present) =>
                /\ Len(SelectSeq(MsgTexts(WarningsOf(k)),
                                 LAMBDA t : t = "Missing _sections.md file")) = 1
                /\ \A m \in Range(ErrorsOf(k)) :
                      m.file = <<>> =>
                          m.msg \in RequiredItemTexts \cup {"metadata.json: Invalid JSON"}
    /\ (ValidateEnded /\ OnlyDefectMissingRegistry) =>
          /\ ErrorsOf(1) = <<>>
          /\ MsgTexts(WarningsOf(1)) = <<"Missing _sections.md file">>
          /\ exitStatus = 0

\* validate has exited with 0 for a skill with a clean rule file and no registry
C20_Witness ==
    /\ vpc = "exited" /\ exitStatus = 0
    /\ OnlyDefectMissingRegistry
    /\ FilesChecked(1) # {}
    /\ MsgTexts(WarningsOf(1)) = <<"Missing _sections.md file">>

(***************************************************************************)
(* The claims about failures and empty inputs of build                     *)
(***************************************************************************)
\* skill k has a metadata.json that parses and a rules directory
Buildable(k) == skills[k].metadata.state = "object" /\ skills[k].rules.state = "dir"

IOFailure == {"EACCES", "SyntaxError", "ENOTDIR", "EISDIR"}

\* C21: an I/O or parse failure of the build stops the processing of the one
\* input only: when the run is over, every skill directory that has a
\* parsable metadata.json and a rules directory has been compiled.
C21_FailureStopsOneInput ==
    (RunEnded /\ thrown \in IOFailure \cup {""}) =>
        \A k \in 1..Len(skills) : Buildable(k) => WritesOf(k) # <<>>

\* skill k has a parsable metadata.json and a readable rules directory
\* without _sections.md
RegistryAbsent(k) ==
    /\ Buildable(k) /\ ~skills[k].rules.registry.present
    /\ \A i \in 1..Len(skills[k].rules.entries) : skills[k].rules.entries[i].kind = "file"

\* the build is at or past the outputs of skill k
PastSkill(k) == bSkill > k \/ (bSkill = k /\ bpc \in {"done", "crashed"})

\* C22: when rules/_sections.md is absent the build of the skill does not
\* fail, buckets no rule file, writes no reference file and writes an index
\* that lists no category.
C22_NoRegistryEmptyIndex ==
    \A k \in 1..Len(skills) : (RegistryAbsent(k) /\ skills = runSkills) =>
        /\ bSkill = k => bpc # "crashed"
        /\ (bSkill = k /\ bpc = "group") => (sections = <<>> /\ rulesBySection = {})
        /\ PastSkill(k) =>
              /\ Len(WritesOf(k)) = 1
              /\ WritesOf(k)[1].path = AgentsFile
              /\ ~Includes(WritesOf(k)[1].content, H3)

\* the reference document of a section without rules: title, impact line,
\* description and horizontal rule
BareReference(section) ==
    <<"#", " ">> \o section.name \o <<"\n", "\n">>
    \o <<"*", "*", "I", "m", "p", "a", "c", "t", ":", " ">> \o section.impact
    \o <<"*", "*", "\n", "\n">>
    \o section.description \o <<"\n", "\n", "-", "-", "-", "\n", "\n">>

\* C23: the build of a skill writes a reference document for every section of
\* the registry, in registry order; the document of a section that no rule
\* file matches is the title, the impact line, the description and the
\* horizontal rule, and nothing else.
C23_EverySectionHasReference ==
    \A k \in 1..Len(skills) : Built(k) =>
        /\ Len(WritesOf(k)) = Len(SectionsOf(k)) + 1
        /\ \A j \in 1..Len(SectionsOf(k)) :
              LET sec == SectionsOf(k)[j]
                  w == WritesOf(k)[j]
              IN /\ StartsWith(w.path, ReferencesDir)
                 /\ StartsWith(w.content, H1 \o sec.name \o <<NL>>)
                 /\ Len(SectionFiles(k, sec.prefix)) = 0 =>
                       (w.content = BareReference(sec) /\ RuleHeadings(w.content) = <<>>)

GadgetsReference ==
    <<"r", "e", "f", "e", "r", "e", "n", "c", "e", "s", "/", "g", "a", "d", "g", "e",
    "t", "s", ".", "m", "d">>

\* section 3, Gadgets, of the shop registry has no rule file; Widgets has two
C23_Witness ==
    /\ bpc = "done"
    /\ skills[1].rules.registry.text = RegistryShop
    /\ SectionFiles(1, SectionsOf(1)[1].prefix) = <<>>
    /\ Len(SectionFiles(1, SectionsOf(1)[2].prefix)) = 2
    /\ \E w \in Range(written) :
          w.path = GadgetsReference /\ w.content = BareReference(SectionsOf(1)[1])

(***************************************************************************)
(* The claim about sectionToFilename                                       *)
(***************************************************************************)
\* the maximal runs of letters and digits of a text, in order
RECURSIVE AlnumRuns(_)
AlnumRuns(str) ==
    IF str = <<>> THEN <<>>
    ELSE IF Head(str) \in Lower \cup Upper \cup Digit
    THEN LET n == RunLen(str, 1, Lower \cup Upper \cup Digit)
         IN <<SubSeq(str, 1, n)>> \o AlnumRuns(SubSeq(str, n + 1, Len(str)))
    ELSE AlnumRuns(Tail(str))

\* C24: sectionToFilename gives the runs of letters and digits of the name,
\* lowercased and joined by single hyphens, followed by ".md"; the stem does
\* not start or end with a hyphen, holds no two adjacent hyphens, and is its
\* own slug.
C24_SlugShape ==
    spc \in {"slug", "again"} =>
        /\ filename = Join(AlnumRuns(ToLowerCase(slugName)), "-") \o <<".", "m", "d">>
        /\ Stem(filename) # <<>> =>
              (Stem(filename)[1] # "-" /\ Stem(filename)[Len(Stem(filename))] # "-")
        /\ ~Includes(Stem(filename), <<"-", "-">>)
        /\ spc = "again" => refile = filename

\* "A &b" has been slugified to a-b.md, and a-b again to a-b.md
C24_Witness ==
    /\ spc = "again"
    /\ slugName = <<"A", " ", "&", "b">>
    /\ filename = <<"a", "-", "b", ".", "m", "d">>
    /\ refile = filename

(***************************************************************************)
(* The claims about rule bodies, written paths and metadata                *)
(***************************************************************************)
RECURSIVE DropLeadingNewlines(_)
DropLeadingNewlines(text) ==
    IF text # <<>> /\ Head(text) = NL THEN DropLeadingNewlines(Tail(text)) ELSE text

\* the trimmed body of a rule file as the build reads it
TrimmedBody(content) == Trim(parseMarkdownFrontmatter(content).content)

\* C25: a bucketed rule's body loses its first line exactly when that line is
\* the heading "## <title>" of the rule's own title; any other first line, a
\* different "## " heading included, is kept.
C25_OnlyDuplicateHeadingStripped ==
    Grouping =>
        \A prefix \in Prefixes : \A i \in 1..Len(Bucket(rulesBySection, prefix)) :
            LET rule == Bucket(rulesBySection, prefix)[i]
                body == TrimmedBody(Entry(skills[bSkill].rules, rule.file).content)
                first == DocLines(body)[1]
            IN IF first = H2 \o rule.title
               THEN rule.content
                      = DropLeadingNewlines(SubSeq(body, Len(first) + 1, Len(body)))
               ELSE DocLines(rule.content)[1] = first

SkillMdPath == <<"S", "K", "I", "L", "L", ".", "m", "d">>
MetadataPath == <<"m", "e", "t", "a", "d", "a", "t", "a", ".", "j", "s", "o", "n">>
RulesDirPath == <<"r", "u", "l", "e", "s", "/">>

\* the paths of the inputs of skill k, relative to the skill directory
InputPaths(k) ==
    {SkillMdPath, MetadataPath}
    \cup { RulesDirPath \o n : n \in Range(Readdir(skills[k].rules)) }

\* a path directly under references/
DirectlyUnderReferences(path) ==
    /\ StartsWith(path, ReferencesDir)
    /\ Len(path) > Len(ReferencesDir)
    /\ \A i \in (Len(ReferencesDir) + 1)..Len(path) : path[i] # "/"

\* C26: validate writes no file; build writes only AGENTS.md of the skill and
\* files directly under its references/, never the path of an input, and the
\* inputs are as they were when the command started.
C26_InputsNotMutated ==
    /\ vpc \notin {"idle", "off"} => (written = <<>> /\ disk = {})
    /\ \A i \in 1..Len(written) :
          /\ written[i].path = AgentsFile \/ DirectlyUnderReferences(written[i].path)
          /\ written[i].path \notin InputPaths(written[i].skill)
    /\ \A f \in disk : \E i \in 1..Len(written) : written[i] = f
    /\ bpc \notin {"idle", "off"} => skills = runSkills

FilesIoReference ==
    <<"r", "e", "f", "e", "r", "e", "n", "c", "e", "s", "/", "f", "i", "l", "e", "s",
    "-", "i", "o", ".", "m", "d">>

\* the build has written the reference of the section named Files/IO
C26_Witness ==
    /\ bpc = "done"
    /\ skills[1].rules.registry.text = RegistrySlash
    /\ Len(skills[1].rules.entries) = 2
    /\ \E w \in disk : w.path = FilesIoReference

\* the number of messages of msgs with the text t
Occurrences(msgs, t) == Len(SelectSeq(MsgTexts(msgs), LAMBDA x : x = t))

MetadataWarningTexts == {"metadata.json: Missing version", "metadata.json: Missing abstract"}

\* C27: for a metadata.json that is there, the report has the error for invalid
\* JSON exactly when the file cannot be parsed as JSON, and otherwise one
\* warning for each of version and abstract that is missing; for a
\* metadata.json that is not there, only the missing-required-file error.
C27_MetadataChecks ==
    \A k \in 1..Len(skills) : Reported(k) =>
        LET metadata == skills[k].metadata
            invalid == Occurrences(ErrorsOf(k), "metadata.json: Invalid JSON")
            noVersion == Occurrences(WarningsOf(k), "metadata.json: Missing version")
            noAbstract == Occurrences(WarningsOf(k), "metadata.json: Missing abstract")
        IN IF metadata.state = "absent"
           THEN /\ Occurrences(ErrorsOf(k), "Missing required file: metadata.json") = 1
                /\ invalid = 0 /\ noVersion = 0 /\ noAbstract = 0
           ELSE IF metadata.state \in {"badjson", "unreadable"}
           THEN invalid = 1 /\ noVersion = 0 /\ noAbstract = 0
           ELSE /\ invalid = 0
                /\ noVersion = (IF "version" \in metadata.fields THEN 0 ELSE 1)
                /\ noAbstract = (IF "abstract" \in metadata.fields THEN 0 ELSE 1)

\* the values of the title key in the block the validator recognises, read line
\* by line at the first colon
TitleValues(content) ==
    { Trim(AfterFirstColon(l)) :
        l \in { b \in Range(DocLines(ValidatorFrontmatterMatch(content).g1)) :
                  HasColon(b) /\ Trim(BeforeFirstColon(b)) = TitleProp } }

\* C28: for a bucketed rule file the validator has no error for and whose block
\* has a title key, the build finds the frontmatter block and the rule's title
\* is the value of that key, also when the closing "---" ends the file or is
\* followed by more characters on its line.
C28_ValidatorAndBuilderAgree ==
    Grouping =>
        \A prefix \in Prefixes : \A i \in 1..Len(Bucket(rulesBySection, prefix)) :
            LET rule == Bucket(rulesBySection, prefix)[i]
                content == Entry(skills[bSkill].rules, rule.file).content
            IN (RuleFileErrors(rule.file, content) = <<>> /\ TitleValues(content) # {}) =>
                   /\ FrontmatterMatch(content).matched
                   /\ rule.title \in TitleValues(content)

\* C29: in one build of a skill no reference file is written twice: the
\* documents of two sections go to two paths, and every document written is
\* the one on disk under its path when the skill's build is over.
C29_NoReferenceWrittenTwice ==
    \A k \in 1..Len(skills) : Built(k) =>
        LET ws == WritesOf(k)
        IN /\ \A i, j \in 1..Len(ws) : i < j => ws[i].path # ws[j].path
           /\ \A i \in 1..Len(ws) : ws[i] \in disk

(***************************************************************************)
(* The claim about the size of a rule file's part of the report            *)
(***************************************************************************)
\* the first line of the file is the delimiter
FrontmatterOpened(content) == DocLines(content)[1] = Dashes

\* a line after the first block line begins with the delimiter: the block has
\* at least one line, and the closing line may go on after its "---"
FrontmatterClosed(content) ==
    \E j \in 3..Len(DocLines(content)) : StartsWith(DocLines(content)[j], Dashes)

====
